---- MODULE Spec2Model ----
(***************************************************************************)
(* Model of the GOLB / Flux gateway: the Backend runtime record, the three *)
(* load-balancing pickers (RoundRobin, WeightedRoundRobin,                 *)
(* LeastConnections), the proxy Gateway (director / modifyResponse /       *)
(* errorHandler with the swappable picker), the health Monitor, the admin  *)
(* Registry with its onChange callback, and the configuration hot-reload.  *)
(*                                                                         *)
(* Backend and picker objects are heap objects in the program; here they   *)
(* are indices into the sequences `backends` and `pickers`, so that two    *)
(* objects with the same URL are still two objects.                        *)
(***************************************************************************)
EXTENDS Integers, Sequences, FiniteSets, TLC

VARIABLES
    backends,     \* heap of strategy.Backend objects (index = object identity)
    pickers,      \* heap of strategy.Picker objects
    gwPicker,     \* Gateway.picker
    monBackends,  \* Monitor.backends
    probing,      \* backends captured by the running probeAll cycle, not yet probed
    regBackends,  \* Registry.backends
    regStrategy,  \* Registry.strategy
    pending,      \* registry mutations past their locked section, onChange not yet run
    chain,        \* the middleware chain stored in main's atomic.Value `current`
    req,          \* the inbound requests and where each one is in the proxy
    removedDone,  \* Backend objects whose Registry.Remove has returned nil
    nMut,         \* number of registry mutations / reloads that took effect
    nCycles,      \* number of probeAll cycles started
    hist,         \* the Next() calls made on the picker under test, in order
    nFlips,       \* number of flag flips made on the picker under test
    adminLog,     \* what the registry calls made so far did (see NewAdminLog)
    mon,          \* the Monitor's goroutine and the Stop() call (see NewMonitor)
    mw,           \* the middleware chains built so far and the cell `current`
    mem           \* the backing arrays of the []*Backend slices (see NoMem)

vars == << backends, pickers, gwPicker, monBackends, probing, regBackends,
           regStrategy, pending, chain, req, removedDone, nMut, nCycles, hist,
           nFlips, adminLog, mon, mw, mem >>

----------------------------------------------------------------------------
(* Bounds of the model *)

MaxReq == 2

MaxMut == 1

MaxCycles == 1

MaxRegMut == 3

MaxBackendObjs == 3

StatCap == 1

MaxLimReq == 4

MaxCalls == 6

MaxFlips == 2

NoBackend == 0

URLs == {"u1", "u2"}

BadURL == "bad"

Weights == {1, 2}

AddWeights == {2}

ValidStrategies == {"round_robin", "weighted_round_robin", "least_connections"}

----------------------------------------------------------------------------
(* Generic helpers *)

RECURSIVE SeqSum(_)
SeqSum(s) == IF s = <<>> THEN 0 ELSE Head(s) + SeqSum(Tail(s))

Range(s) == { s[i] : i \in 1..Len(s) }

RemoveAt(s, i) == SubSeq(s, 1, i - 1) \o SubSeq(s, i + 1, Len(s))

----------------------------------------------------------------------------
(* Go slices of *Backend.  A slice is a header [arr, len] over a backing    *)
(* array (every slice here starts at element 0 of its array); the capacity  *)
(* is the length of the array, and 0 is the nil pointer.  mem holds the     *)
(* arrays, the header of Registry.backends, and every list the registry     *)
(* has handed out (to onChange, or as the result of Backends()) together    *)
(* with what the receiver saw in it at that time.  Only the specification   *)
(* SpecSlices works on mem; elsewhere lists are the sequences they hold.    *)

NoMem == [arrays |-> <<>>, reg |-> [arr |-> 0, len |-> 0], out |-> <<>>]

\* the elements a reader of slice s sees
Elems(m, s) == SubSeq(m.arrays[s.arr], 1, s.len)

\* make([]*Backend, n, c) followed by copy(new, elems): a new array
sliceMake(m, elems, c) ==
    [mem   |-> [m EXCEPT !.arrays =
                  Append(@, [i \in 1..c |-> IF i <= Len(elems) THEN elems[i] ELSE 0])],
     slice |-> [arr |-> Len(m.arrays) + 1, len |-> Len(elems)]]

\* append(s, x): in place when the capacity allows, else into a new array
\* of capacity c (the runtime chooses c > len(s))
sliceAppend(m, s, x, c) ==
    IF s.len < Len(m.arrays[s.arr])
    THEN [mem   |-> [m EXCEPT !.arrays[s.arr][s.len + 1] = x],
          slice |-> [s EXCEPT !.len = @ + 1]]
    ELSE sliceMake(m, Append(Elems(m, s), x), c)

\* append(s[:idx], s[idx+1:]...) for the 1-based position idx: the tail is
\* moved down inside the same array, whose last used cell keeps its value
removeShift(m, s, idx) ==
    [mem   |-> [m EXCEPT !.arrays[s.arr] =
                  [i \in 1..Len(@) |-> IF i >= idx /\ i < s.len THEN @[i + 1] ELSE @[i]]],
     slice |-> [s EXCEPT !.len = @ - 1]]

\* Registry.snapshot: make and copy
snapshotShared(m) == [mem |-> m, slice |-> m.reg]

snapshotCopy(m) == sliceMake(m, Elems(m, m.reg), m.reg.len)

\* the registry passes list s to onChange or returns it from Backends()
HandOut(m, s) ==
    [m EXCEPT !.out = Append(@, [slice |-> s, seen |-> Elems(m, s)])]

----------------------------------------------------------------------------
(* strategy.Backend *)

\* NewBackend: url.Parse fails on an unparseable URL; a fresh backend is healthy.
UrlParses(u) == u # BadURL

NewBackend(u, w) ==
    [ url |-> u, weight |-> w, healthy |-> TRUE, blocked |-> FALSE,
      activeConns |-> 0, totalRequests |-> 0, totalErrors |-> 0 ]

IsHealthy(b) == backends[b].healthy

IsBlocked(b) == backends[b].blocked

ActiveConns(b) == backends[b].activeConns

\* the spec's selectable() predicate
Selectable(b) == IsHealthy(b) /\ ~IsBlocked(b)

\* healthySubset: the healthy, non-blocked backends of the slice, in order
healthySubset(all) == SelectSeq(all, LAMBDA b : IsHealthy(b) /\ ~IsBlocked(b))

----------------------------------------------------------------------------
(* strategy pickers.  A picker object is a record                          *)
(*   [kind, backends, counter, cw]                                         *)
(* kind: which of the three types; backends: the slice it was built over;  *)
(* counter: RoundRobin.counter; cw: wrrEntry.currentWeight per entry.      *)

NoPicker == [kind |-> "none", backends |-> <<>>, counter |-> 0, cw |-> <<>>]

NewRoundRobin(bs) ==
    [kind |-> "rr", backends |-> bs, counter |-> 0, cw |-> <<>>]

NewWeightedRoundRobin(bs) ==
    [kind |-> "wrr", backends |-> bs, counter |-> 0,
     cw |-> [i \in 1..Len(bs) |-> 0]]

NewLeastConnections(bs) ==
    [kind |-> "lc", backends |-> bs, counter |-> 0, cw |-> <<>>]

\* strategy.New: the factory; err = TRUE stands for a non-nil error
NewDefaultsToRoundRobin(strategy, bs) ==
    IF Len(bs) = 0 THEN [err |-> TRUE, picker |-> NoPicker]
    ELSE IF strategy = "weighted_round_robin"
         THEN [err |-> FALSE, picker |-> NewWeightedRoundRobin(bs)]
    ELSE IF strategy = "least_connections"
         THEN [err |-> FALSE, picker |-> NewLeastConnections(bs)]
    ELSE [err |-> FALSE, picker |-> NewRoundRobin(bs)]

New(strategy, bs) ==
    IF Len(bs) = 0 THEN [err |-> TRUE, picker |-> NoPicker]
    ELSE IF strategy \in {"round_robin", ""}
         THEN [err |-> FALSE, picker |-> NewRoundRobin(bs)]
    ELSE IF strategy = "weighted_round_robin"
         THEN [err |-> FALSE, picker |-> NewWeightedRoundRobin(bs)]
    ELSE IF strategy = "least_connections"
         THEN [err |-> FALSE, picker |-> NewLeastConnections(bs)]
    ELSE [err |-> TRUE, picker |-> NoPicker]

NextFailed(p) == [ok |-> FALSE, b |-> NoBackend, picker |-> p]

\* RoundRobin.Next, line 61-62: idx := counter.Add(1) - 1; healthy[idx % len]
\* (added is the value Add(1) returned; the result is a 1-based position)
RRIndexOffByOne(added, n) == (added % n) + 1

RRIndex(added, n) == ((added - 1) % n) + 1

RRNext(p) ==
    LET healthy == healthySubset(p.backends)
        added   == p.counter + 1
    IN  IF Len(healthy) = 0 THEN NextFailed(p)
        ELSE [ok |-> TRUE,
              b  |-> healthy[RRIndex(added, Len(healthy))],
              picker |-> [p EXCEPT !.counter = added]]

\* WeightedRoundRobin.Next: the entries it collects as healthy (it reads
\* IsHealthy only)
WRRHealthy(p) == { i \in 1..Len(p.backends) : IsHealthy(p.backends[i]) }

\* (variant that totals the weight of every entry, healthy or not)
WRRTotalOfAll(p) ==
    SeqSum([i \in 1..Len(p.backends) |-> backends[p.backends[i]].weight])

WRRTotal(p) ==
    SeqSum([i \in 1..Len(p.backends) |->
              IF i \in WRRHealthy(p) THEN backends[p.backends[i]].weight ELSE 0])

\* (variant of step 1 that raises every healthy entry by one, whatever its weight)
WRRRaisedUnweighted(p) ==
    [i \in 1..Len(p.backends) |->
        IF i \in WRRHealthy(p) THEN p.cw[i] + 1 ELSE p.cw[i]]

\* Step 1: raise each healthy entry's currentWeight by its weight
WRRRaised(p) ==
    [i \in 1..Len(p.backends) |->
        IF i \in WRRHealthy(p) THEN p.cw[i] + backends[p.backends[i]].weight
        ELSE p.cw[i]]

\* Step 2: the scan keeps the first entry and replaces it only on a strictly
\* higher currentWeight, so the earliest index wins a tie
WRRBestLastWins(p) ==
    LET c == WRRRaised(p)  H == WRRHealthy(p)
    IN  CHOOSE i \in H : \A j \in H : c[j] < c[i] \/ (c[j] = c[i] /\ j <= i)

WRRBest(p) ==
    LET c == WRRRaised(p)  H == WRRHealthy(p)
    IN  CHOOSE i \in H : \A j \in H : c[j] < c[i] \/ (c[j] = c[i] /\ i <= j)

WRRNext(p) ==
    IF WRRHealthy(p) = {} THEN NextFailed(p)
    ELSE LET best == WRRBest(p)
         IN  [ok |-> TRUE,
              b  |-> p.backends[best],
              \* Step 3: subtract the total from the winner
              picker |-> [p EXCEPT !.cw =
                            [WRRRaised(p) EXCEPT ![best] = @ - WRRTotal(p)]]]

\* LeastConnections.Next: the scan skips !IsHealthy() only, keeps the first
\* backend and replaces it only on strictly fewer active connections
LCCandidates(p) == { i \in 1..Len(p.backends) : IsHealthy(p.backends[i]) }

\* (variant whose scan also replaces its backend on an equal count)
LCNextLastOfMin(p) ==
    LET H == LCCandidates(p)
    IN  IF H = {} THEN NextFailed(p)
        ELSE LET best == CHOOSE i \in H : \A j \in H :
                            \/ ActiveConns(p.backends[i]) < ActiveConns(p.backends[j])
                            \/ /\ ActiveConns(p.backends[i]) = ActiveConns(p.backends[j])
                               /\ j <= i
             IN  [ok |-> TRUE, b |-> p.backends[best], picker |-> p]

\* (variant whose scan never replaces the first healthy backend it met)
LCNextFirstHealthy(p) ==
    LET H == LCCandidates(p)
    IN  IF H = {} THEN NextFailed(p)
        ELSE LET best == CHOOSE i \in H : \A j \in H : i <= j
             IN  [ok |-> TRUE, b |-> p.backends[best], picker |-> p]

LCNext(p) ==
    LET H == LCCandidates(p)
    IN  IF H = {} THEN NextFailed(p)
        ELSE LET best == CHOOSE i \in H : \A j \in H :
                            \/ ActiveConns(p.backends[i]) < ActiveConns(p.backends[j])
                            \/ /\ ActiveConns(p.backends[i]) = ActiveConns(p.backends[j])
                               /\ i <= j
             IN  [ok |-> TRUE, b |-> p.backends[best], picker |-> p]

\* Picker.Next through the interface; IncConns on the winner is applied by
\* the caller of this operator (it writes the Backend heap)
PickerNext(p) ==
    IF p.kind = "rr" THEN RRNext(p)
    ELSE IF p.kind = "wrr" THEN WRRNext(p)
    ELSE LCNext(p)

\* IncConns / DecConns on backend b of heap h
IncConns(h, b) == [h EXCEPT ![b].activeConns = @ + 1]

DecConns(h, b) == [h EXCEPT ![b].activeConns = @ - 1]

\* Picker.Done(b): all three types only call b.DecConns()
PickerDone(h, p, b) == DecConns(h, b)

----------------------------------------------------------------------------
(* config: what a (re)load of gateway.yaml can deliver.                    *)
(*   parses   - viper could unmarshal the file                             *)
(*   backends - the backends: entries [url, weight]                        *)
(*   strategy - the strategy: name                                         *)
(*   chain    - what buildChain reads: auth.enabled, rate_limit.enabled,   *)
(*              rate_limit.burst, auth.secret, auth.exclude                 *)

ChainCfg(auth, rate) ==
    [auth |-> auth, rate |-> rate, burst |-> 2, secret |-> "s1",
     exclude |-> {"/open"}]

DefaultChain == ChainCfg(FALSE, FALSE)

InitConfigs ==
    { [parses |-> TRUE, backends |-> bs, strategy |-> st, chain |-> DefaultChain] :
        bs \in { << [url |-> "u1", weight |-> 1] >>,
                 << [url |-> "u1", weight |-> 1], [url |-> "u2", weight |-> 2] >> },
        st \in ValidStrategies }

ReloadConfigs ==
    { [parses |-> FALSE, backends |-> <<>>, strategy |-> "round_robin",
       chain |-> ChainCfg(TRUE, FALSE)],
      [parses |-> TRUE, backends |-> <<>>, strategy |-> "round_robin",
       chain |-> ChainCfg(TRUE, FALSE)],
      [parses |-> TRUE, backends |-> << [url |-> "", weight |-> 1] >>,
       strategy |-> "round_robin", chain |-> ChainCfg(TRUE, FALSE)],
      [parses |-> TRUE, backends |-> << [url |-> BadURL, weight |-> 1] >>,
       strategy |-> "round_robin", chain |-> ChainCfg(TRUE, FALSE)],
      [parses |-> TRUE, backends |-> << [url |-> "u1", weight |-> 0] >>,
       strategy |-> "magic_balancer", chain |-> ChainCfg(TRUE, FALSE)],
      [parses |-> TRUE, backends |-> << [url |-> "u2", weight |-> 0] >>,
       strategy |-> "least_connections", chain |-> ChainCfg(FALSE, TRUE)],
      [parses |-> TRUE,
       backends |-> << [url |-> "u1", weight |-> 1], [url |-> "u1", weight |-> 2] >>,
       strategy |-> "round_robin", chain |-> DefaultChain] }

\* config.unmarshal: rejects an unparseable file, an empty backend list and an
\* empty url; a weight <= 0 becomes 1.  It does not look at the strategy name.
unmarshal(c) ==
    IF ~c.parses \/ Len(c.backends) = 0
       \/ (\E i \in 1..Len(c.backends) : c.backends[i].url = "")
    THEN [err |-> TRUE, cfg |-> c]
    ELSE [err |-> FALSE,
          cfg |-> [c EXCEPT !.backends =
                     [i \in 1..Len(c.backends) |->
                        IF c.backends[i].weight <= 0
                        THEN [c.backends[i] EXCEPT !.weight = 1]
                        ELSE c.backends[i]]]]

\* strategy.NewBackends: fails as a whole when one URL does not parse;
\* otherwise the fresh Backend objects, in order
NewBackends(cfgs) ==
    IF \E i \in 1..Len(cfgs) : ~UrlParses(cfgs[i].url)
    THEN [err |-> TRUE, objs |-> <<>>]
    ELSE [err |-> FALSE,
          objs |-> [i \in 1..Len(cfgs) |-> NewBackend(cfgs[i].url, cfgs[i].weight)]]

\* main.buildChain: which optional middlewares wrap the gateway
buildChain(c) ==
    [auth |-> c.chain.auth, rate |-> c.chain.rate, burst |-> c.chain.burst,
     secret |-> c.chain.secret, exclude |-> c.chain.exclude]

\* the client addresses of the model
IPs == {"ip1", "ip2"}

\* the handler buildChain returns, as an object: its configuration, its
\* middlewares in order, and the RateLimiter's map of limiters (an address without an entry has a full
\* bucket of `burst` tokens, as has the entry getLimiter then creates)
\* main.buildChain: the middlewares a request meets inside Logger, outermost
\* first.  (First a variant that wraps the rate limiter in the authentication.)
buildOrderAuthFirst(cc) ==
    (IF cc.auth THEN << "auth" >> ELSE << >>) \o
    (IF cc.rate THEN << "rate" >> ELSE << >>) \o << "proxy" >>

buildOrder(cc) ==
    (IF cc.rate THEN << "rate" >> ELSE << >>) \o
    (IF cc.auth THEN << "auth" >> ELSE << >>) \o << "proxy" >>

NewChain(cc) ==
    [cfg |-> cc, order |-> buildOrder(cc), tokens |-> [ip \in IPs |-> cc.burst]]

\* main: current.Store(buildChain(cfg)) at start-up
NewMiddleware(cc) == [objs |-> << NewChain(cc) >>, cell |-> 1]

\* current.Store(buildChain(newCfg)) of the hot reload
StoreChain(m, cc) ==
    [objs |-> Append(m.objs, NewChain(cc)), cell |-> Len(m.objs) + 1]

----------------------------------------------------------------------------
(* admin.Registry helpers *)

\* Registry.snapshot: a copy of the slice
snapshot(bs) == bs

\* a mutation that left its locked section: onChange(strat, snap) is still to
\* run; target is the backend whose flag Block/Unblock write before calling
\* it; locked says whether r.mu is held while onChange runs
CallbackUnderLock(op, strat, snap, target, ch) ==
    [op |-> op, strat |-> strat, snapshot |-> snap, target |-> target,
     chain |-> ch, locked |-> TRUE]

Callback(op, strat, snap, target, ch) ==
    [op |-> op, strat |-> strat, snapshot |-> snap, target |-> target,
     chain |-> ch, locked |-> FALSE]

----------------------------------------------------------------------------
(* Initial state: main() has loaded cfg, built the registry over            *)
(* initialBackends and seeded gateway and monitor from reg.Backends().      *)

\* adminLog: ok = mutations that got past their checks, onChange = calls of
\* r.onChange made, overlap = some mutation ran its locked section while
\* another one had not returned yet, result = what the last Add / Remove /
\* Block / Unblock call returned
NewAdminLog == [ok |-> 0, onChange |-> 0, overlap |-> FALSE, result |-> "none"]

\* mon.state: where the goroutine of Monitor.Start is: "new" (no Start yet),
\* "startup" (before the immediate probeAll), "probing" (inside probeAll),
\* "select" (at the select of the loop), "exited"; mon.cancelled: ctx is
\* cancelled; mon.stop: the Stop() call: "none", "waiting" (at wg.Wait),
\* "returned"
NewMonitor == [state |-> "new", cancelled |-> FALSE, stop |-> "none"]

\* main: cfg.HealthCheck.Enabled, so monitor.Start() was called
StartedMonitor == [NewMonitor EXCEPT !.state = "startup"]

\* An inbound request as the middlewares read it: the TCP peer address, the
\* X-Real-IP header ("" when absent), the URL path and the credential.
\* A credential: whether an Authorization header is present, whether it
\* starts with "Bearer ", and the token after the prefix: whether it parses
\* as a JWT, its alg header, the key it was signed with, whether it is
\* expired.
NoToken == [parses |-> FALSE, alg |-> "none", key |-> "", expired |-> FALSE]

NoCred == [header |-> FALSE, bearer |-> FALSE, token |-> NoToken]

NoInput == [remote |-> "", realIP |-> "", urlPath |-> "", cred |-> NoCred]

\* a request record: where the request is in the proxy (pc, picker, b, ...),
\* and before that in the chain: the chain object it loaded (chainObj, 0 for
\* none), how often it loaded the cell (nLoad), the middleware of that chain
\* it stands before (pos), the handlers that have seen it (trace), whether
\* Logger has written its line (logged)
IdleReq ==
    [pc |-> "idle", picker |-> 0, b |-> NoBackend, donePicker |-> 0,
     nDone |-> 0, doneOn |-> NoBackend, path |-> "none", status |-> 0,
     seenRemoved |-> {}, nNext |-> 0,
     input |-> NoInput, chainObj |-> 0, nLoad |-> 0, pos |-> 0,
     trace |-> << >>, logged |-> FALSE]

InitWith(c, m, slots) ==
        LET objs == NewBackends(unmarshal(c).cfg.backends).objs
            ids  == [i \in 1..Len(objs) |-> i]
        IN  /\ backends = objs
            /\ regBackends = ids
            /\ regStrategy = c.strategy
            /\ pickers = << New(c.strategy, snapshot(ids)).picker >>
            /\ gwPicker = 1
            /\ monBackends = snapshot(ids)
            /\ probing = {}
            /\ pending = <<>>
            /\ chain = buildChain(c)
            /\ mw = NewMiddleware(buildChain(c))
            /\ mem = NoMem
            /\ req = [r \in 1..slots |-> IdleReq]
            /\ removedDone = {}
            /\ nMut = 0
            /\ nCycles = 0
            /\ hist = <<>>
            /\ nFlips = 0
            /\ adminLog = NewAdminLog
            /\ mon = m

InitFrom(c, m) == InitWith(c, m, MaxReq)

InitGateway(m) == \E c \in InitConfigs : InitFrom(c, m)

\* main with cfg.HealthCheck.Enabled: monitor.Start() has been called
Init == InitGateway(StartedMonitor)

----------------------------------------------------------------------------
(* proxy.Gateway.  A handler works on the pair st = [heap, rq]: the Backend *)
(* heap and the request's own record (rq.b is the backend in the request   *)
(* context, NoBackend when director attached none).                        *)

SetHealthy(h, b, v) == [h EXCEPT ![b].healthy = v]

SetBlocked(h, b, v) == [h EXCEPT ![b].blocked = v]

IncRequests(h, b) == [h EXCEPT ![b].totalRequests = @ + 1]

IncErrors(h, b) == [h EXCEPT ![b].totalErrors = @ + 1]

UpstreamStatuses == {200, 404, 503}

StatusBadGateway == 502

\* picker.Done(b) as called by the two hooks, on picker object pid
CallDone(st, pid, b) ==
    [heap |-> PickerDone(st.heap, pickers[pid], b),
     rq   |-> [st.rq EXCEPT !.nDone = @ + 1, !.doneOn = b, !.donePicker = pid]]

\* Gateway.director, first part: picker := gw.picker under the read lock
directorCapture(rq, pid) == [rq EXCEPT !.pc = "captured", !.picker = pid]

\* Gateway.director, rest: picker.Next(), then rewrite the request and attach
\* b to its context; on error aim the request at 0.0.0.0:0 and attach nothing
directorNext(st, res) ==
    IF ~res.ok
    THEN [heap |-> st.heap,
          rq   |-> [st.rq EXCEPT !.pc = "dispatched", !.b = NoBackend,
                                 !.nNext = @ + 1]]
    ELSE [heap |-> IncConns(st.heap, res.b),
          rq   |-> [st.rq EXCEPT !.pc = "dispatched", !.b = res.b,
                                 !.nNext = @ + 1]]

\* Gateway.modifyResponse: the upstream answered with `status`; pid is the
\* value of gw.picker the hook reads
modifyResponseNoDone(st, pid, status) ==
    [heap |-> IF st.rq.b # NoBackend THEN IncRequests(st.heap, st.rq.b) ELSE st.heap,
     rq   |-> [st.rq EXCEPT !.pc = "done", !.path = "success", !.status = status]]

modifyResponseDemotesOn5xx(st, pid, status) ==
    IF st.rq.b # NoBackend
    THEN LET d == CallDone(st, pid, st.rq.b)
             h == IF status >= 500 THEN SetHealthy(d.heap, st.rq.b, FALSE)
                  ELSE d.heap
         IN  [heap |-> IncRequests(h, st.rq.b),
              rq   |-> [d.rq EXCEPT !.pc = "done", !.path = "success",
                                    !.status = status]]
    ELSE [heap |-> st.heap,
          rq   |-> [st.rq EXCEPT !.pc = "done", !.path = "success", !.status = status]]

modifyResponse(st, pid, status) ==
    IF st.rq.b # NoBackend
    THEN LET d == CallDone(st, pid, st.rq.b)
         IN  [heap |-> IncRequests(d.heap, st.rq.b),
              rq   |-> [d.rq EXCEPT !.pc = "done", !.path = "success",
                                    !.status = status]]
    ELSE [heap |-> st.heap,
          rq   |-> [st.rq EXCEPT !.pc = "done", !.path = "success", !.status = status]]

\* Gateway.errorHandler: the dispatch failed; pid as above
errorHandlerNoDemotion(st, pid) ==
    IF st.rq.b # NoBackend
    THEN LET d == CallDone(st, pid, st.rq.b)
         IN  [heap |-> IncErrors(IncRequests(d.heap, st.rq.b), st.rq.b),
              rq   |-> [d.rq EXCEPT !.pc = "done", !.path = "failure",
                                    !.status = StatusBadGateway]]
    ELSE [heap |-> st.heap,
          rq   |-> [st.rq EXCEPT !.pc = "done", !.path = "failure",
                                 !.status = StatusBadGateway]]

errorHandlerDoneTwice(st, pid) ==
    IF st.rq.b # NoBackend
    THEN LET d == CallDone(CallDone(st, pid, st.rq.b), pid, st.rq.b)
         IN  [heap |-> IncErrors(IncRequests(
                          SetHealthy(d.heap, st.rq.b, FALSE), st.rq.b), st.rq.b),
              rq   |-> [d.rq EXCEPT !.pc = "done", !.path = "failure",
                                    !.status = StatusBadGateway]]
    ELSE [heap |-> st.heap,
          rq   |-> [st.rq EXCEPT !.pc = "done", !.path = "failure",
                                 !.status = StatusBadGateway]]

errorHandlerRepliesOnlyForBackend(st, pid) ==
    IF st.rq.b # NoBackend
    THEN LET d == CallDone(st, pid, st.rq.b)
         IN  [heap |-> IncErrors(IncRequests(
                          SetHealthy(d.heap, st.rq.b, FALSE), st.rq.b), st.rq.b),
              rq   |-> [d.rq EXCEPT !.pc = "done", !.path = "failure",
                                    !.status = StatusBadGateway]]
    ELSE [heap |-> st.heap,
          rq   |-> [st.rq EXCEPT !.pc = "done", !.path = "failure"]]

\* (variant that sends the request back to director when the picker still
\* has a selectable backend)
errorHandlerRetries(st, pid) ==
    IF st.rq.b # NoBackend
    THEN LET d == CallDone(st, pid, st.rq.b)
             h == IncErrors(IncRequests(
                      SetHealthy(d.heap, st.rq.b, FALSE), st.rq.b), st.rq.b)
         IN  IF \E x \in Range(pickers[st.rq.picker].backends) :
                    x # st.rq.b /\ h[x].healthy /\ ~h[x].blocked
             THEN [heap |-> h, rq |-> [d.rq EXCEPT !.pc = "captured"]]
             ELSE [heap |-> h,
                   rq   |-> [d.rq EXCEPT !.pc = "done", !.path = "failure",
                                         !.status = StatusBadGateway]]
    ELSE [heap |-> st.heap,
          rq   |-> [st.rq EXCEPT !.pc = "done", !.path = "failure",
                                 !.status = StatusBadGateway]]

errorHandler(st, pid) ==
    IF st.rq.b # NoBackend
    THEN LET d == CallDone(st, pid, st.rq.b)
         IN  [heap |-> IncErrors(IncRequests(
                          SetHealthy(d.heap, st.rq.b, FALSE), st.rq.b), st.rq.b),
              rq   |-> [d.rq EXCEPT !.pc = "done", !.path = "failure",
                                    !.status = StatusBadGateway]]
    ELSE [heap |-> st.heap,
          rq   |-> [st.rq EXCEPT !.pc = "done", !.path = "failure",
                                 !.status = StatusBadGateway]]

\* a request enters director and reads gw.picker
Capture(r) ==
    /\ req[r].pc = "idle"
    /\ req' = [req EXCEPT ![r] =
                 [directorCapture(req[r], gwPicker) EXCEPT !.seenRemoved = removedDone]]
    /\ UNCHANGED << backends, pickers, gwPicker, monBackends, probing,
                 regBackends, regStrategy, pending, chain, mw, mem, removedDone, nMut,
                 nCycles, hist, nFlips,
                 adminLog, mon >>

\* the request calls Next() on the picker it read
DirectorNext(r) ==
    /\ req[r].pc = "captured"
    /\ LET pid == req[r].picker
           res == PickerNext(pickers[pid])
           out == directorNext([heap |-> backends, rq |-> req[r]], res)
       IN  /\ backends' = out.heap
           /\ req' = [req EXCEPT ![r] = out.rq]
           /\ pickers' = [pickers EXCEPT ![pid] = res.picker]
    /\ UNCHANGED << gwPicker, monBackends, probing, regBackends, regStrategy,
                 pending, chain, mw, mem, removedDone, nMut, nCycles, hist, nFlips,
                 adminLog, mon >>

\* the upstream replied (only a real backend can reply: 0.0.0.0:0 cannot)
ModifyResponse(r, status) ==
    /\ req[r].pc = "dispatched"
    /\ req[r].b # NoBackend
    /\ LET out == modifyResponse([heap |-> backends, rq |-> req[r]], gwPicker, status)
       IN  /\ backends' = out.heap
           /\ req' = [req EXCEPT ![r] = out.rq]
    /\ UNCHANGED << pickers, gwPicker, monBackends, probing, regBackends,
                 regStrategy, pending, chain, mw, mem, removedDone, nMut, nCycles,
                 hist, nFlips,
                 adminLog, mon >>

\* the dispatch failed (dial error, timeout, or the sham target 0.0.0.0:0)
ErrorHandler(r) ==
    /\ req[r].pc = "dispatched"
    /\ LET out == errorHandler([heap |-> backends, rq |-> req[r]], gwPicker)
       IN  /\ backends' = out.heap
           /\ req' = [req EXCEPT ![r] = out.rq]
    /\ UNCHANGED << pickers, gwPicker, monBackends, probing, regBackends,
                 regStrategy, pending, chain, mw, mem, removedDone, nMut, nCycles,
                 hist, nFlips,
                 adminLog, mon >>

----------------------------------------------------------------------------
(* health.Monitor *)

\* outcome of one GET: an HTTP status, or 0 for a transport / timeout error
ProbeOutcomes == {0, 200, 399, 400}

\* the outcomes probe takes for "alive": 200 <= StatusCode < 400
GoodOutcomes == { o \in ProbeOutcomes : o >= 200 /\ o < 400 }

\* Monitor.probe
probeHealsOnAnyResponse(h, b, outcome) ==
    IF outcome = 0 THEN SetHealthy(h, b, FALSE) ELSE SetHealthy(h, b, TRUE)

probeTreats4xxAsAlive(h, b, outcome) ==
    IF outcome >= 200 /\ outcome < 500 THEN SetHealthy(h, b, TRUE)
    ELSE SetHealthy(h, b, FALSE)

probeOnlyDemotes(h, b, outcome) ==
    IF outcome >= 200 /\ outcome < 400 THEN h ELSE SetHealthy(h, b, FALSE)

probe(h, b, outcome) ==
    IF outcome = 0 THEN SetHealthy(h, b, FALSE)
    ELSE IF outcome >= 200 /\ outcome < 400 THEN SetHealthy(h, b, TRUE)
    ELSE SetHealthy(h, b, FALSE)

MonitorFrame ==
    UNCHANGED << pickers, gwPicker, monBackends, regBackends, regStrategy,
                 pending, chain, mw, mem, req, removedDone, nMut, hist, nFlips,
                 adminLog >>

\* Monitor.Start: the goroutine is launched and m.cancel is set
Start ==
    /\ mon.state = "new"
    /\ mon.stop = "none"
    /\ mon' = [mon EXCEPT !.state = "startup"]
    /\ UNCHANGED << backends, probing, nCycles >>
    /\ MonitorFrame

\* the backends a probeAll that read `list` starts a probe for
probeAllButFirst(list) == Range(Tail(list))

probeAllCaptured(list) == Range(list)

\* Monitor.probeAll, up to wg.Wait: reads m.backends and starts one probe per
\* backend; called at startup and when the select takes a tick
probeAllBegin ==
    /\ mon.state \in {"startup", "select"}
    /\ probing' = probeAllCaptured(monBackends)
    /\ mon' = [mon EXCEPT !.state = IF probing' = {} THEN "select" ELSE "probing"]
    /\ UNCHANGED backends
    /\ MonitorFrame

\* probeAll in the gateway model, at most MaxCycles times
ProbeAllStart ==
    /\ nCycles < MaxCycles
    /\ nCycles' = nCycles + 1
    /\ probeAllBegin

\* probeAll any number of times
Tick ==
    /\ probeAllBegin
    /\ UNCHANGED nCycles

\* the probeAll the goroutine runs before it enters its loop
StartupProbe == mon.state = "startup" /\ Tick

\* one of the cycle's probes completes; the last one lets wg.Wait return
Probe(b, outcome) ==
    /\ mon.state = "probing"
    /\ b \in probing
    /\ probing' = probing \ {b}
    /\ backends' = probe(backends, b, outcome)
    /\ mon' = [mon EXCEPT !.state = IF probing' = {} THEN "select" ELSE "probing"]
    /\ UNCHANGED nCycles
    /\ MonitorFrame

\* the select takes <-ctx.Done(): the goroutine returns, wg.Done() runs
exitAtSelect == mon.cancelled /\ mon.state = "select"

Exit ==
    /\ exitAtSelect
    /\ mon' = [mon EXCEPT !.state = "exited"]
    /\ UNCHANGED << backends, probing, nCycles >>
    /\ MonitorFrame

\* Monitor.Stop, first part: m.cancel() when Start has set it
StopCancel ==
    /\ mon.stop = "none"
    /\ mon' = [mon EXCEPT !.stop = "waiting",
                           !.cancelled = (mon.state # "new")]
    /\ UNCHANGED << backends, probing, nCycles >>
    /\ MonitorFrame

\* (a Stop that does not wait)
stopWaitsForNothing == TRUE

\* Monitor.Stop, second part: m.wg.Wait() returns once the goroutine, if
\* any, has exited
stopWaitOver == mon.state \in {"new", "exited"}

StopReturn ==
    /\ mon.stop = "waiting"
    /\ stopWaitOver
    /\ mon' = [mon EXCEPT !.stop = "returned"]
    /\ UNCHANGED << backends, probing, nCycles >>
    /\ MonitorFrame

\* Monitor.UpdateBackends
UpdateBackends(bs) == bs

----------------------------------------------------------------------------
(* admin.Registry mutations.  Each has a locked section (one step) and the  *)
(* part after Unlock: the flag write of Block/Unblock and r.onChange(...),  *)
(* taken as the step OnChange below.  A call that returns an error changes  *)
(* nothing in the program.  nMut counts the calls made; every action takes  *)
(* the number of calls it may follow as `bound`.                            *)

RegUnchanged == UNCHANGED << backends, regBackends, regStrategy, pending >>

RestUnchanged ==
    UNCHANGED << pickers, gwPicker, monBackends, probing, chain, mw, mem, req,
                 removedDone, nCycles, hist, nFlips, mon >>

\* the call returns the error `result`
Fails(result) ==
    /\ RegUnchanged
    /\ adminLog' = [adminLog EXCEPT !.result = result]

\* the call got past its checks and will return nil
Passed ==
    adminLog' = [adminLog EXCEPT !.ok = @ + 1, !.result = "ok",
                                 !.overlap = @ \/ pending # <<>>]

\* Registry.find: index of the first backend with the URL, or 0 for -1
find(rawURL) ==
    IF \E i \in 1..Len(regBackends) : backends[regBackends[i]].url = rawURL
    THEN CHOOSE i \in 1..Len(regBackends) :
            /\ backends[regBackends[i]].url = rawURL
            /\ \A j \in 1..(i - 1) : backends[regBackends[j]].url # rawURL
    ELSE 0

\* Registry.Add: the scan for an existing RawURL
addFindsNoDuplicate(rawURL) == FALSE

addFindsDuplicate(rawURL) ==
    \E i \in 1..Len(regBackends) : backends[regBackends[i]].url = rawURL

\* Registry.Add
AddB(rawURL, weight, bound) ==
    /\ nMut < bound
    /\ nMut' = nMut + 1
    /\ IF ~UrlParses(rawURL) THEN Fails("invalid")
       ELSE IF addFindsDuplicate(rawURL) THEN Fails("exists")
       ELSE /\ Len(backends) < MaxBackendObjs
            /\ backends' = Append(backends, NewBackend(rawURL, weight))
            /\ regBackends' = Append(regBackends, Len(backends) + 1)
            /\ pending' = Append(pending,
                   Callback("add", regStrategy, snapshot(regBackends'),
                            NoBackend, chain))
            /\ Passed
            /\ UNCHANGED regStrategy
    /\ RestUnchanged

Add(rawURL, weight) == AddB(rawURL, weight, MaxMut)

\* Registry.Remove
RemoveB(rawURL, bound) ==
    /\ nMut < bound
    /\ nMut' = nMut + 1
    /\ LET idx == find(rawURL)
       IN  IF idx = 0 THEN Fails("notfound")
           ELSE /\ regBackends' = RemoveAt(regBackends, idx)
                /\ pending' = Append(pending,
                       Callback("remove", regStrategy, snapshot(regBackends'),
                                regBackends[idx], chain))
                /\ Passed
                /\ UNCHANGED << backends, regStrategy >>
    /\ RestUnchanged

Remove(rawURL) == RemoveB(rawURL, MaxMut)

\* Registry.Block / Registry.Unblock (op is "block" or "unblock")
BlockOrUnblock(op, rawURL, bound) ==
    /\ nMut < bound
    /\ nMut' = nMut + 1
    /\ LET idx == find(rawURL)
       IN  IF idx = 0 THEN Fails("notfound")
           ELSE /\ pending' = Append(pending,
                       Callback(op, regStrategy, snapshot(regBackends),
                                regBackends[idx], chain))
                /\ Passed
                /\ UNCHANGED << backends, regBackends, regStrategy >>
    /\ RestUnchanged

Block(rawURL) == BlockOrUnblock("block", rawURL, MaxMut)

Unblock(rawURL) == BlockOrUnblock("unblock", rawURL, MaxMut)

\* config.Watch's callback followed by main's: unmarshal, NewBackends, and the
\* locked section of Registry.ReplaceAll.  The watcher runs one callback at a
\* time, so no reload starts while an earlier one has not finished.
ReloadBKeepingState(c, bound) ==
    /\ \A i \in 1..Len(pending) : pending[i].op # "replace"
    /\ LET u  == unmarshal(c)
           nb == NewBackends(u.cfg.backends)
           \* (variant: a listed backend takes over the flags and counters of
           \* the registry's Backend with its URL)
           kept == [i \in 1..Len(nb.objs) |->
                      IF find(nb.objs[i].url) # 0
                      THEN [backends[regBackends[find(nb.objs[i].url)]]
                               EXCEPT !.weight = nb.objs[i].weight]
                      ELSE nb.objs[i]]
       IN  IF u.err \/ nb.err
           THEN RegUnchanged /\ UNCHANGED << nMut, adminLog >>
           ELSE /\ nMut < bound
                /\ nMut' = nMut + 1
                /\ Len(backends) + Len(nb.objs) <= MaxBackendObjs
                /\ backends' = backends \o kept
                /\ regBackends' = [i \in 1..Len(nb.objs) |-> Len(backends) + i]
                /\ regStrategy' = u.cfg.strategy
                /\ pending' = Append(pending,
                       Callback("replace", u.cfg.strategy, snapshot(regBackends'),
                                NoBackend, buildChain(u.cfg)))
                /\ adminLog' = [adminLog EXCEPT !.ok = @ + 1,
                                                !.overlap = @ \/ pending # <<>>]
    /\ RestUnchanged

ReloadB(c, bound) ==
    /\ \A i \in 1..Len(pending) : pending[i].op # "replace"
    /\ LET u  == unmarshal(c)
           nb == NewBackends(u.cfg.backends)
       IN  IF u.err \/ nb.err
           THEN RegUnchanged /\ UNCHANGED << nMut, adminLog >>
           ELSE /\ nMut < bound
                /\ nMut' = nMut + 1
                /\ Len(backends) + Len(nb.objs) <= MaxBackendObjs
                /\ backends' = backends \o nb.objs
                /\ regBackends' = [i \in 1..Len(nb.objs) |-> Len(backends) + i]
                /\ regStrategy' = u.cfg.strategy
                /\ pending' = Append(pending,
                       Callback("replace", u.cfg.strategy, snapshot(regBackends'),
                                NoBackend, buildChain(u.cfg)))
                /\ adminLog' = [adminLog EXCEPT !.ok = @ + 1,
                                                !.overlap = @ \/ pending # <<>>]
    /\ RestUnchanged

Reload(c) == ReloadB(c, MaxMut)

\* main's onChange callback: rebuild the picker; on error log and return,
\* else gw.UpdatePicker and monitor.UpdateBackends
onChange(cb) ==
    LET n == New(cb.strat, cb.snapshot)
    IN  IF n.err THEN [swap |-> FALSE, picker |-> NoPicker]
        ELSE [swap |-> TRUE, picker |-> n.picker]

\* the part of mutation pending[i] after its Unlock, up to its return (for a
\* reload: up to current.Store(buildChain(newCfg)))
OnChange(i) ==
    /\ i \in 1..Len(pending)
    /\ LET cb == pending[i]
           oc == onChange(cb)
       IN  /\ backends' = IF cb.op \in {"block", "unblock"}
                          THEN SetBlocked(backends, cb.target, cb.op = "block")
                          ELSE backends
           /\ IF oc.swap
              THEN /\ pickers' = Append(pickers, oc.picker)
                   /\ gwPicker' = Len(pickers) + 1
                   /\ monBackends' = UpdateBackends(cb.snapshot)
              ELSE UNCHANGED << pickers, gwPicker, monBackends >>
           /\ chain' = IF cb.op = "replace" THEN cb.chain ELSE chain
           /\ mw' = IF cb.op = "replace" THEN StoreChain(mw, cb.chain) ELSE mw
           /\ removedDone' = IF cb.op = "remove"
                             THEN removedDone \cup {cb.target} ELSE removedDone
    /\ pending' = RemoveAt(pending, i)
    /\ adminLog' = [adminLog EXCEPT !.onChange = @ + 1]
    /\ UNCHANGED << probing, regBackends, regStrategy, req, nMut, nCycles,
                 hist, nFlips, mon, mem >>

----------------------------------------------------------------------------
(* The gateway as a whole *)

Next ==
    \/ \E r \in 1..MaxReq : Capture(r)
    \/ \E r \in 1..MaxReq : DirectorNext(r)
    \/ \E r \in 1..MaxReq, st \in UpstreamStatuses : ModifyResponse(r, st)
    \/ \E r \in 1..MaxReq : ErrorHandler(r)
    \/ ProbeAllStart
    \/ \E b \in 1..Len(backends), o \in ProbeOutcomes : Probe(b, o)
    \/ \E u \in URLs \cup {BadURL}, w \in AddWeights : Add(u, w)
    \/ \E u \in URLs : Remove(u)
    \/ \E u \in URLs : Block(u)
    \/ \E u \in URLs : Unblock(u)
    \/ \E c \in ReloadConfigs : Reload(c)
    \/ \E i \in 1..Len(pending) : OnChange(i)

Spec == Init /\ [][Next]_vars

----------------------------------------------------------------------------
(* The registry on its own: admin calls and reloads, up to MaxRegMut of     *)
(* them, with their onChange callbacks; no request and no probe runs.       *)

NextRegistry ==
    \/ \E u \in URLs \cup {BadURL}, w \in AddWeights : AddB(u, w, MaxRegMut)
    \/ \E u \in URLs : RemoveB(u, MaxRegMut)
    \/ \E u \in URLs : BlockOrUnblock("block", u, MaxRegMut)
    \/ \E u \in URLs : BlockOrUnblock("unblock", u, MaxRegMut)
    \/ \E c \in ReloadConfigs : ReloadB(c, MaxRegMut)
    \/ \E i \in 1..Len(pending) : OnChange(i)

SpecRegistry == Init /\ [][NextRegistry]_vars

----------------------------------------------------------------------------
(* The monitor's life: Start, probe cycles without a bound on their number, *)
(* UpdateBackends through the registry's callbacks, and Stop.  No request   *)
(* runs.  A probe ends because the http.Client has a timeout (2s unless     *)
(* configured); the select of the loop picks among its ready cases at       *)
(* random, so a cancelled context is not passed over for ever.              *)

InitMonitor == InitGateway(NewMonitor)

NextMonitor ==
    \/ Start
    \/ Tick
    \/ \E b \in 1..Len(backends), o \in ProbeOutcomes : Probe(b, o)
    \/ Exit
    \/ StopCancel
    \/ StopReturn
    \/ \E u \in URLs, w \in AddWeights : Add(u, w)
    \/ \E u \in URLs : Remove(u)
    \/ \E c \in ReloadConfigs : Reload(c)
    \/ \E i \in 1..Len(pending) : OnChange(i)

SpecMonitor ==
    /\ InitMonitor
    /\ [][NextMonitor]_vars
    /\ WF_vars(StartupProbe)
    /\ WF_vars(\E b \in 1..Len(backends), o \in ProbeOutcomes : Probe(b, o))
    /\ SF_vars(Exit)
    /\ WF_vars(StopReturn)

----------------------------------------------------------------------------
(* The gateway serving an endless stream of requests over a fixed list of   *)
(* two backends, with the monitor ticking and every probe answered 2xx/3xx. *)
(* MaxReq requests are in the proxy at a time; a finished one makes room    *)
(* for the next.  To keep the state space finite the statistics counters    *)
(* stop at StatCap (nothing in the proxy reads them) and RoundRobin's       *)
(* counter is kept modulo the list length, which leaves every index         *)
(* (counter mod k), k <= 2, as it is.                                       *)

Saturate(h) ==
    [b \in DOMAIN h |->
       [h[b] EXCEPT !.totalRequests = IF @ > StatCap THEN StatCap ELSE @,
                    !.totalErrors   = IF @ > StatCap THEN StatCap ELSE @]]

FoldCounter(p) == [p EXCEPT !.counter = @ % Len(p.backends)]

InitLive == Init /\ Len(regBackends) = 2

LiveFrame ==
    UNCHANGED << gwPicker, monBackends, probing, regBackends, regStrategy,
                 pending, chain, mw, mem, removedDone, nMut, nCycles, hist, nFlips,
                 adminLog, mon >>

\* director: picker.Next()
LiveDirectorNext(r) ==
    /\ req[r].pc = "captured"
    /\ LET pid == req[r].picker
           res == PickerNext(pickers[pid])
           out == directorNext([heap |-> backends, rq |-> req[r]], res)
       IN  /\ backends' = out.heap
           /\ req' = [req EXCEPT ![r] = out.rq]
           /\ pickers' = [pickers EXCEPT ![pid] = FoldCounter(res.picker)]
    /\ LiveFrame

\* modifyResponse
LiveModifyResponse(r, status) ==
    /\ req[r].pc = "dispatched"
    /\ req[r].b # NoBackend
    /\ LET out == modifyResponse([heap |-> backends, rq |-> req[r]], gwPicker, status)
       IN  /\ backends' = Saturate(out.heap)
           /\ req' = [req EXCEPT ![r] = out.rq]
    /\ UNCHANGED pickers
    /\ LiveFrame

\* errorHandler
LiveErrorHandler(r) ==
    /\ req[r].pc = "dispatched"
    /\ LET out == errorHandler([heap |-> backends, rq |-> req[r]], gwPicker)
       IN  /\ backends' = Saturate(out.heap)
           /\ req' = [req EXCEPT ![r] = out.rq]
    /\ UNCHANGED pickers
    /\ LiveFrame

\* one of the two hooks runs
Complete(r) ==
    \/ \E st \in UpstreamStatuses : LiveModifyResponse(r, st)
    \/ LiveErrorHandler(r)

\* ServeHTTP has returned; the next request of the stream takes the place
Recycle(r) ==
    /\ req[r].pc = "done"
    /\ req' = [req EXCEPT ![r] = IdleReq]
    /\ UNCHANGED << backends, pickers >>
    /\ LiveFrame

\* a probe answered with a status in 200..399
LiveProbe(b) == \E o \in GoodOutcomes : Probe(b, o)

NextLive ==
    \/ \E r \in 1..MaxReq : Capture(r)
    \/ \E r \in 1..MaxReq : LiveDirectorNext(r)
    \/ \E r \in 1..MaxReq : Complete(r)
    \/ \E r \in 1..MaxReq : Recycle(r)
    \/ Tick
    \/ \E b \in 1..Len(backends) : LiveProbe(b)

\* the ticker keeps ticking, probes end, and every request moves on
SpecLive ==
    /\ InitLive
    /\ [][NextLive]_vars
    /\ WF_vars(Tick)
    /\ WF_vars(\E b \in 1..Len(backends) : LiveProbe(b))
    /\ \A r \in 1..MaxReq :
          /\ WF_vars(Capture(r))
          /\ WF_vars(LiveDirectorNext(r))
          /\ WF_vars(Complete(r))
          /\ WF_vars(Recycle(r))

----------------------------------------------------------------------------
(* Start-up of main().  buildGateway makes one set of Backend objects and   *)
(* hands it to the first picker and to health.New; main then calls          *)
(* monitor.Start(), makes a second set (initialBackends) for the registry   *)
(* and seeds gateway and monitor with it; the server listens after that.    *)
(* The monitor goroutine runs its immediate probeAll whenever it is         *)
(* scheduled.  The backends at DownURLs refuse connections throughout.      *)

DownURLs == {"u1"}

\* what a probe of, or a dispatch to, backend b meets
IsDown(b) == backends[b].url \in DownURLs

StartupFrame ==
    UNCHANGED << regBackends, regStrategy, pending, chain, mw, mem, removedDone,
                 nMut, hist, nFlips, adminLog >>

\* after buildGateway(cfg) and NewBackends / NewRegistry
InitStartup ==
    \E c \in InitConfigs :
        LET cfgs == unmarshal(c).cfg.backends
            n    == Len(cfgs)
            own  == [i \in 1..n |-> i]
            reg  == [i \in 1..n |-> n + i]
        IN  /\ backends = NewBackends(cfgs).objs \o NewBackends(cfgs).objs
            /\ pickers = << New(c.strategy, own).picker >>
            /\ gwPicker = 1
            /\ monBackends = own
            /\ regBackends = reg
            /\ regStrategy = c.strategy
            /\ probing = {}
            /\ pending = <<>>
            /\ chain = buildChain(c)
            /\ mw = NewMiddleware(buildChain(c))
            /\ mem = NoMem
            /\ req = [r \in 1..MaxReq |-> IdleReq]
            /\ removedDone = {}
            /\ nMut = 0
            /\ nCycles = 0
            /\ hist = <<>>
            /\ nFlips = 0
            /\ adminLog = NewAdminLog
            /\ mon = NewMonitor

\* gw.UpdatePicker(seedPicker) has run
Seeded == gwPicker # 1

\* main: seedPicker := strategy.New(cfg.Strategy, reg.Backends());
\* gw.UpdatePicker(seedPicker); monitor.UpdateBackends(reg.Backends())
Seed ==
    /\ mon.state # "new"
    /\ ~Seeded
    /\ pickers' = Append(pickers, New(regStrategy, snapshot(regBackends)).picker)
    /\ gwPicker' = Len(pickers) + 1
    /\ monBackends' = UpdateBackends(snapshot(regBackends))
    /\ UNCHANGED << backends, probing, req, nCycles, mon >>
    /\ StartupFrame

\* the goroutine's m.probeAll() before its loop
StartupCycle == mon.state = "startup" /\ ProbeAllStart

\* a probe of the immediate cycle returns
StartupProbeDone(b) == Probe(b, IF IsDown(b) THEN 0 ELSE 200)

\* the server listens once main has seeded the gateway
ServeCapture(r) == Seeded /\ Capture(r)

\* the dispatch ends as the backend's state has it
ServeComplete(r) ==
    /\ req[r].pc = "dispatched"
    /\ IF req[r].b # NoBackend /\ ~IsDown(req[r].b)
       THEN ModifyResponse(r, 200)
       ELSE ErrorHandler(r)

NextStartup ==
    \/ Start
    \/ Seed
    \/ StartupCycle
    \/ \E b \in 1..Len(backends) : StartupProbeDone(b)
    \/ \E r \in 1..MaxReq : ServeCapture(r)
    \/ \E r \in 1..MaxReq : DirectorNext(r)
    \/ \E r \in 1..MaxReq : ServeComplete(r)

SpecStartup == InitStartup /\ [][NextStartup]_vars

----------------------------------------------------------------------------
(* Weights on their way into the registry: the configuration loaded at      *)
(* start-up, reloads, and the admin server's add handler, with weights of   *)
(* every sign; probes change the health flags the weighted picker reads.    *)

\* start-up files, among them one whose weights are zero and negative
LoadConfigs ==
    InitConfigs \cup
    { [parses |-> TRUE,
       backends |-> << [url |-> "u1", weight |-> 0], [url |-> "u2", weight |-> -1] >>,
       strategy |-> "weighted_round_robin", chain |-> DefaultChain] }

HandlerWeights == {-1, 0, 3}

InitAdmin == \E c \in LoadConfigs : InitFrom(c, StartedMonitor)

\* Server.handleAddBackend: the weight handed to Registry.Add
addWeightAsGiven(w) == w

addWeight(w) == IF w <= 0 THEN 1 ELSE w

\* Server.handleAddBackend (POST /api/backends)
HandleAddBackend(u, w) ==
    IF u = ""
    THEN /\ nMut < MaxRegMut
         /\ nMut' = nMut + 1
         /\ Fails("badrequest")
         /\ RestUnchanged
    ELSE AddB(u, addWeight(w), MaxRegMut)

NextAdmin ==
    \/ \E u \in URLs \cup {BadURL, ""}, w \in HandlerWeights : HandleAddBackend(u, w)
    \/ \E u \in URLs : RemoveB(u, MaxRegMut)
    \/ \E c \in ReloadConfigs : ReloadB(c, MaxRegMut)
    \/ \E i \in 1..Len(pending) : OnChange(i)
    \/ Tick
    \/ \E b \in 1..Len(backends), o \in {0, 200} : Probe(b, o)

SpecAdmin == InitAdmin /\ [][NextAdmin]_vars

----------------------------------------------------------------------------
(* The top-level mux and the middleware chain.  A request on /healthz is    *)
(* answered by the mux; any other request goes to atomicHandler, which      *)
(* loads the cell `current` and calls the chain it finds there: Logger,     *)
(* then the middlewares of the chain in order, then the gateway.            *)

StatusOK == 200

StatusTooManyRequests == 429

StatusUnauthorized == 401

\* mux: the handler a path is routed to
muxRouteAllToChain(urlPath) == "chain"

muxRoute(urlPath) == IF urlPath = "/healthz" THEN "healthz" ELSE "chain"

\* middleware.clientIP: the X-Real-IP header if present, else the TCP peer
clientIP(in) == IF in.realIP # "" THEN in.realIP ELSE in.remote

\* rate.Limiter.Allow with no refill between the calls: takes a token of
\* the address's bucket if one is left.  (First a variant with one bucket
\* for all addresses.)
takeTokenShared(tokens, ip) ==
    IF tokens[ip] > 0 THEN [a \in DOMAIN tokens |-> tokens[ip] - 1] ELSE tokens

takeToken(tokens, ip) ==
    IF tokens[ip] > 0 THEN [tokens EXCEPT ![ip] = @ - 1] ELSE tokens

\* the signing methods of type *jwt.SigningMethodHMAC
HMACMethods == {"HS256", "HS384", "HS512"}

\* jwt.Parse with JWTAuth's key function: the token parses, the key function
\* accepts its method, the signature verifies under the key, the claims are
\* valid (not expired)
jwtParseOK(tok, secret) ==
    /\ tok.parses
    /\ tok.alg \in HMACMethods
    /\ tok.key = secret
    /\ ~tok.expired

\* JWTAuth's handler: TRUE when it calls next.ServeHTTP
JWTAuthPasses(cc, in) ==
    IF in.urlPath \in cc.exclude THEN TRUE
    ELSE IF ~(in.cred.header /\ in.cred.bearer) THEN FALSE
    ELSE jwtParseOK(in.cred.token, cc.secret)

\* the chain object whose middlewares serve the request: the one its
\* atomicHandler call loaded.  (First a variant that reads the cell again.)
servingChainCurrent(rq) == mw.cell

servingChain(rq) == rq.chainObj

\* the middleware the request stands before
Stage(r) ==
    IF req[r].pc = "chain"
    THEN mw.objs[servingChain(req[r])].order[req[r].pos]
    ELSE "none"

ChainFrame ==
    UNCHANGED << backends, pickers, gwPicker, monBackends, probing,
                 regBackends, regStrategy, pending, chain, removedDone, nMut,
                 nCycles, hist, nFlips, adminLog, mon, mem >>

\* the request reaches the mux: /healthz is answered there; everything else
\* enters atomicHandler (current.Load()) and Logger
Arrive(r, in) ==
    /\ req[r].pc = "idle"
    /\ req[r].input = NoInput
    /\ IF muxRoute(in.urlPath) = "healthz"
       THEN req' = [req EXCEPT ![r] =
                      [@ EXCEPT !.input = in, !.pc = "done", !.path = "healthz",
                                !.status = StatusOK]]
       ELSE req' = [req EXCEPT ![r] =
                      [@ EXCEPT !.input = in, !.pc = "chain",
                                !.chainObj = mw.cell, !.nLoad = @ + 1,
                                !.pos = 1, !.trace = << "logger" >>]]
    /\ UNCHANGED mw
    /\ ChainFrame

\* RateLimiter's handler
RateStep(r) ==
    /\ Stage(r) = "rate"
    /\ LET k  == servingChain(req[r])
           ip == clientIP(req[r].input)
       IN  IF mw.objs[k].tokens[ip] > 0
           THEN /\ mw' = [mw EXCEPT !.objs[k].tokens = takeToken(@, ip)]
                /\ req' = [req EXCEPT ![r] =
                             [@ EXCEPT !.pos = @ + 1,
                                       !.trace = Append(@, "rate")]]
           ELSE /\ mw' = mw
                /\ req' = [req EXCEPT ![r] =
                             [@ EXCEPT !.pc = "done", !.path = "limited",
                                       !.status = StatusTooManyRequests,
                                       !.trace = Append(@, "rate")]]
    /\ ChainFrame

\* JWTAuth's handler
AuthStep(r) ==
    /\ Stage(r) = "auth"
    /\ LET cc == mw.objs[servingChain(req[r])].cfg
       IN  IF JWTAuthPasses(cc, req[r].input)
           THEN req' = [req EXCEPT ![r] =
                          [@ EXCEPT !.pos = @ + 1, !.trace = Append(@, "auth")]]
           ELSE req' = [req EXCEPT ![r] =
                          [@ EXCEPT !.pc = "done", !.path = "unauthorized",
                                    !.status = StatusUnauthorized,
                                    !.trace = Append(@, "auth")]]
    /\ UNCHANGED mw
    /\ ChainFrame

\* the innermost handler: Gateway.ServeHTTP, director reads gw.picker
ProxyEnter(r) ==
    /\ Stage(r) = "proxy"
    /\ req' = [req EXCEPT ![r] =
                 [directorCapture(@, gwPicker) EXCEPT !.trace = Append(@, "proxy")]]
    /\ UNCHANGED mw
    /\ ChainFrame

\* next.ServeHTTP has returned into Logger, which writes its line
LogLine(r) ==
    /\ req[r].pc = "done"
    /\ req[r].chainObj # 0
    /\ ~req[r].logged
    /\ req' = [req EXCEPT ![r].logged = TRUE]
    /\ UNCHANGED mw
    /\ ChainFrame

----------------------------------------------------------------------------
(* Requests through mux, chain and proxy while a hot reload stores a new    *)
(* chain.  One backend; chains with both middlewares (burst 1) and with     *)
(* none; the reload may change the secret.                                  *)

GoodToken(alg, secret) ==
    [parses |-> TRUE, alg |-> alg, key |-> secret, expired |-> FALSE]

Bearer(tok) == [header |-> TRUE, bearer |-> TRUE, token |-> tok]

ChainCfgs ==
    { DefaultChain,
      [auth |-> TRUE, rate |-> TRUE, burst |-> 1, secret |-> "s1", exclude |-> {}],
      [auth |-> TRUE, rate |-> TRUE, burst |-> 1, secret |-> "s2", exclude |-> {}] }

ChainConfig(cc) ==
    [parses |-> TRUE, backends |-> << [url |-> "u1", weight |-> 1] >>,
     strategy |-> "round_robin", chain |-> cc]

ChainInputs ==
    { [remote |-> "ip1", realIP |-> "", urlPath |-> p, cred |-> c] :
        p \in {"/api", "/healthz"},
        c \in {NoCred, Bearer(GoodToken("HS256", "s1"))} }

InitChain ==
    \E cc \in ChainCfgs : cc.secret = "s1" /\ InitFrom(ChainConfig(cc), StartedMonitor)

NextChain ==
    \/ \E r \in 1..MaxReq, in \in ChainInputs : Arrive(r, in)
    \/ \E r \in 1..MaxReq : RateStep(r)
    \/ \E r \in 1..MaxReq : AuthStep(r)
    \/ \E r \in 1..MaxReq : ProxyEnter(r)
    \/ \E r \in 1..MaxReq : DirectorNext(r)
    \/ \E r \in 1..MaxReq : ModifyResponse(r, StatusOK)
    \/ \E r \in 1..MaxReq : ErrorHandler(r)
    \/ \E r \in 1..MaxReq : LogLine(r)
    \/ \E cc \in ChainCfgs : Reload(ChainConfig(cc))
    \/ \E i \in 1..Len(pending) : OnChange(i)

SpecChain == InitChain /\ [][NextChain]_vars

----------------------------------------------------------------------------
(* The rate limiter on its own, as middleware_test.go drives it: up to      *)
(* MaxLimReq requests from two addresses, with and without an X-Real-IP     *)
(* header, through one RateLimiter(rps, burst) whose rps is too small to    *)
(* refill a token between them.  A request that passes stands before the    *)
(* next handler.                                                            *)

Bursts == {1, 2}

LimiterInputs ==
    { [remote |-> a, realIP |-> h, urlPath |-> "/", cred |-> NoCred] :
        a \in IPs, h \in {"", "ip2"} }

InitLimiter ==
    \E b \in Bursts :
        InitWith(ChainConfig([auth |-> FALSE, rate |-> TRUE, burst |-> b,
                              secret |-> "s1", exclude |-> {}]),
                 StartedMonitor, MaxLimReq)

NextLimiter ==
    \/ \E r \in 1..MaxLimReq, in \in LimiterInputs : Arrive(r, in)
    \/ \E r \in 1..MaxLimReq : RateStep(r)

SpecLimiter == InitLimiter /\ [][NextLimiter]_vars

----------------------------------------------------------------------------
(* JWTAuth on its own, as middleware_test.go drives it: requests with every *)
(* kind of credential, on excluded and other paths, through one             *)
(* JWTAuth(secret, exclude).  A request that passes stands before the next  *)
(* handler.                                                                 *)

AuthCfg == [auth |-> TRUE, rate |-> FALSE, burst |-> 2, secret |-> "s1",
            exclude |-> {"/open"}]

AuthCreds ==
    { NoCred,
      [header |-> TRUE, bearer |-> FALSE, token |-> NoToken],
      Bearer(NoToken),
      Bearer(GoodToken("HS256", "s1")),
      Bearer(GoodToken("HS256", "s2")),
      Bearer(GoodToken("HS384", "s1")),
      Bearer(GoodToken("HS512", "s1")),
      Bearer(GoodToken("RS256", "s1")),
      Bearer(GoodToken("none", "")),
      Bearer([GoodToken("HS256", "s1") EXCEPT !.expired = TRUE]) }

AuthInputs ==
    { [remote |-> "ip1", realIP |-> "", urlPath |-> p, cred |-> c] :
        p \in {"/api", "/open", "/open/x"}, c \in AuthCreds }

InitAuth == InitFrom(ChainConfig(AuthCfg), StartedMonitor)

NextAuth ==
    \/ \E r \in 1..MaxReq, in \in AuthInputs : Arrive(r, in)
    \/ \E r \in 1..MaxReq : AuthStep(r)

SpecAuth == InitAuth /\ [][NextAuth]_vars

----------------------------------------------------------------------------
(* One picker on its own, driven the way strategy_test.go drives it: Next() *)
(* calls in sequence, with health and blocked flags flipped between them.   *)
(* hist records, per Next() call: the backend returned (NoBackend on        *)
(* ErrNoHealthyBackend), the sets of selectable and of healthy backends at  *)
(* the call, and the value the call got from RoundRobin's counter.          *)

PolicyWeightLists == { <<1, 1>>, <<1, 2>>, <<3, 1>>, <<1, 1, 1>>, <<2, 1, 1>> }

PolicyURL(i) == IF i = 1 THEN "u1" ELSE IF i = 2 THEN "u2" ELSE "u3"

InitPolicy ==
    \E ws \in PolicyWeightLists, st \in ValidStrategies :
        LET ids == [i \in 1..Len(ws) |-> i]
        IN  /\ backends = [i \in 1..Len(ws) |-> NewBackend(PolicyURL(i), ws[i])]
            /\ regBackends = ids
            /\ regStrategy = st
            /\ pickers = << New(st, ids).picker >>
            /\ gwPicker = 1
            /\ monBackends = ids
            /\ probing = {}
            /\ pending = <<>>
            /\ chain = DefaultChain
            /\ mw = NewMiddleware(DefaultChain)
            /\ mem = NoMem
            /\ req = [r \in 1..MaxReq |-> IdleReq]
            /\ removedDone = {}
            /\ nMut = 0
            /\ nCycles = 0
            /\ hist = <<>>
            /\ nFlips = 0
            /\ adminLog = NewAdminLog
            /\ mon = StartedMonitor

PolicyFrame ==
    UNCHANGED << gwPicker, monBackends, probing, regBackends, regStrategy,
                 pending, chain, mw, mem, req, removedDone, nMut, nCycles, adminLog,
                 mon >>

\* p.Next() called directly on the picker
PNext ==
    /\ Len(hist) < MaxCalls
    /\ LET p   == pickers[1]
           res == PickerNext(p)
       IN  /\ backends' = IF res.ok THEN IncConns(backends, res.b) ELSE backends
           /\ pickers' = << res.picker >>
           /\ hist' = Append(hist,
                 [b       |-> res.b,
                  sel     |-> { x \in Range(p.backends) : Selectable(x) },
                  healthy |-> { x \in Range(p.backends) : IsHealthy(x) },
                  n       |-> res.picker.counter])
    /\ UNCHANGED nFlips
    /\ PolicyFrame

\* b.SetHealthy(v) between calls
PSetHealthy(b, v) ==
    /\ nFlips < MaxFlips
    /\ IsHealthy(b) # v
    /\ backends' = SetHealthy(backends, b, v)
    /\ nFlips' = nFlips + 1
    /\ UNCHANGED << pickers, hist >>
    /\ PolicyFrame

\* b.SetBlocked(v) between calls
PSetBlocked(b, v) ==
    /\ nFlips < MaxFlips
    /\ IsBlocked(b) # v
    /\ backends' = SetBlocked(backends, b, v)
    /\ nFlips' = nFlips + 1
    /\ UNCHANGED << pickers, hist >>
    /\ PolicyFrame

NextPolicy ==
    \/ PNext
    \/ \E b \in 1..Len(backends), v \in BOOLEAN : PSetHealthy(b, v)
    \/ \E b \in 1..Len(backends), v \in BOOLEAN : PSetBlocked(b, v)

SpecPolicy == InitPolicy /\ [][NextPolicy]_vars

\* the same, with the health flag as the only flag that flips
NextPolicyHealth ==
    \/ PNext
    \/ \E b \in 1..Len(backends), v \in BOOLEAN : PSetHealthy(b, v)

SpecPolicyHealth == InitPolicy /\ [][NextPolicyHealth]_vars

----------------------------------------------------------------------------
(* Properties of a single picker (SpecPolicy, SpecPolicyHealth) *)

\* number of calls among hist[j .. j+len-1] that returned b
CountIn(j, len, b) == Cardinality({ i \in j..(j + len - 1) : hist[i].b = b })

\* sum of the weights of the backends of set S
WeightOf(S) ==
    SeqSum([i \in 1..Len(backends) |-> IF i \in S THEN backends[i].weight ELSE 0])

\* the calls hist[j .. j+len-1] exist and all saw the selectable set S
StableSel(j, len, S) ==
    /\ j + len - 1 <= Len(hist)
    /\ \A i \in j..(j + len - 1) : hist[i].sel = S

\* C6: RoundRobin: the call that obtained counter value i returns
\* subset[(i-1) mod k], subset being the selectable backends in declared
\* order; hence every window of n*k consecutive calls over a stable
\* selectable subset of size k places exactly n calls on each backend.
C6_RoundRobinDistribution ==
    pickers[1].kind = "rr" =>
      /\ \A j \in 1..Len(hist) :
            hist[j].b # NoBackend =>
               LET sub == SelectSeq(pickers[1].backends,
                                    LAMBDA x : x \in hist[j].sel)
               IN  /\ Len(sub) > 0
                   /\ hist[j].b = sub[((hist[j].n - 1) % Len(sub)) + 1]
      /\ \A j \in 1..Len(hist), m \in 1..Len(hist) :
            LET S == hist[j].sel
                k == Cardinality(S)
            IN  (k > 0 /\ m % k = 0 /\ StableSel(j, m, S)) =>
                   \A b \in S : CountIn(j, m, b) = m \div k

\* two full rounds over a selectable subset of 2 out of 3 listed backends
C6_Witness ==
    /\ pickers[1].kind = "rr"
    /\ Len(pickers[1].backends) = 3
    /\ \E j \in 2..Len(hist) :
          /\ Cardinality(hist[j].sel) = 2
          /\ StableSel(j, 4, hist[j].sel)

----------------------------------------------------------------------------
(* Properties of the gateway (Spec) *)

\* request r makes its picker.Next() call in this step
NextStep(r) == req[r].pc = "captured" /\ req'[r].pc = "dispatched"

\* requests that selected b through Next() and have not reached Done()
InFlight(b) == { r \in 1..MaxReq : req[r].pc = "dispatched" /\ req[r].b = b }

\* C1: every backend a Next() call returns is healthy and not blocked at the
\* moment it is chosen, whichever picker type made the choice.
C1_NextReturnsSelectable ==
    [][ \A r \in 1..MaxReq :
          (NextStep(r) /\ req'[r].b # NoBackend) =>
             (IsHealthy(req'[r].b) /\ ~IsBlocked(req'[r].b)) ]_vars

\* C2: active_conns of every backend equals the number of requests that
\* selected it and have not reached done(); so it is never negative and is
\* back at 0, its value before any request, once every request is done.
C2_ActiveConnsCountsInFlight ==
    \A b \in 1..Len(backends) :
       /\ ActiveConns(b) = Cardinality(InFlight(b))
       /\ ActiveConns(b) >= 0

\* a request completed on a backend while another one is still in flight on
\* it, the picker having been swapped since the first one read it
C2_Witness ==
    \E r1, r2 \in 1..MaxReq :
       /\ req[r1].pc = "done" /\ req[r1].b # NoBackend
       /\ req[r2].pc = "dispatched" /\ req[r2].b = req[r1].b
       /\ gwPicker # req[r1].picker
       /\ ActiveConns(req[r1].b) = 1

\* C3: a request whose Next() succeeded has had no done() while it is in
\* flight and can always take a completion path; once completed it went
\* through exactly one path, which called done() exactly once, on the very
\* backend Next() returned.
C3_ExactlyOneDone ==
    \A r \in 1..MaxReq :
       /\ (req[r].pc = "dispatched" /\ req[r].b # NoBackend) =>
             (req[r].nDone = 0 /\ req[r].path = "none" /\ ENABLED ErrorHandler(r))
       /\ (req[r].pc = "done" /\ req[r].b # NoBackend) =>
             /\ req[r].nDone = 1
             /\ req[r].doneOn = req[r].b
             /\ req[r].path \in {"success", "failure"}

\* both paths taken by two requests on the same backend, with a reload
\* having replaced the registry's backends while they were in flight
C3_Witness ==
    \E r1, r2 \in 1..MaxReq :
       /\ req[r1].pc = "done" /\ req[r1].path = "success"
       /\ req[r2].pc = "done" /\ req[r2].path = "failure"
       /\ req[r1].b # NoBackend /\ req[r2].b = req[r1].b
       /\ req[r1].b \notin Range(regBackends)
       /\ req[r1].donePicker # req[r1].picker

C5_UnhealthySkippedUntilHealed ==
    [][ \A r \in 1..MaxReq :
          NextStep(r) =>
             LET list == Range(pickers[req[r].picker].backends)
             IN  /\ req'[r].b # NoBackend => IsHealthy(req'[r].b)
                 /\ ((\E b \in list : ~IsHealthy(b))
                       /\ (\A b \in list : ~Selectable(b)))
                    => req'[r].b = NoBackend ]_vars

\* C8: a request uses the picker it read in director for its Next() and for
\* the matching Done(); what it selected is from that picker's list.
C8_SamePolicyForNextAndDone ==
    \A r \in 1..MaxReq :
       /\ (req[r].pc \in {"dispatched", "done"} /\ req[r].b # NoBackend) =>
             req[r].b \in Range(pickers[req[r].picker].backends)
       /\ (req[r].pc = "done" /\ req[r].b # NoBackend) =>
             req[r].donePicker = req[r].picker

\* C9: a request that enters the proxy after Registry.Remove(url) returned
\* nil is never given the removed backend.
C9_RemovedNeverSelected ==
    \A r \in 1..MaxReq :
       (req[r].pc \in {"dispatched", "done"} /\ req[r].b # NoBackend) =>
          req[r].b \notin req[r].seenRemoved

\* a reload the program must reject: unmarshal or NewBackends fails, or the
\* strategy name is none that strategy.New knows
RejectedConfig(c) ==
    \/ unmarshal(c).err
    \/ NewBackends(unmarshal(c).cfg.backends).err
    \/ c.strategy \notin (ValidStrategies \cup {""})

\* C10: no step of a rejected reload changes the registry's list or strategy
\* name, the proxy's picker, the monitor's list or the middleware chain.
C10_RejectedReloadKeepsConfig ==
    [][ ( \/ \E c \in ReloadConfigs : RejectedConfig(c) /\ Reload(c)
          \/ \E i \in 1..Len(pending) :
                /\ pending[i].op = "replace"
                /\ pending[i].strat \notin (ValidStrategies \cup {""})
                /\ OnChange(i) )
        => UNCHANGED << regBackends, regStrategy, gwPicker, monBackends, chain >>
      ]_vars

\* C15: a request whose Next() failed changes no Backend at its Next() nor
\* afterwards, can always be answered, and its only further step is the
\* error handler answering 502 without any Done().
C15_NoBackendAnswers502 ==
    /\ [](\A r \in 1..MaxReq :
            /\ (req[r].pc = "dispatched" /\ req[r].b = NoBackend) =>
                  ENABLED ErrorHandler(r)
            /\ (req[r].pc = "done" /\ req[r].b = NoBackend) =>
                  /\ req[r].status = 502
                  /\ req[r].path = "failure"
                  /\ req[r].nDone = 0)
    /\ [][ \A r \in 1..MaxReq :
            /\ (NextStep(r) /\ req'[r].b = NoBackend) => backends' = backends
            /\ (req[r].pc = "dispatched" /\ req[r].b = NoBackend
                  /\ req'[r] # req[r]) =>
                  /\ req'[r].pc = "done"
                  /\ backends' = backends ]_vars

\* a request answered 502 for want of a selectable backend, the backends
\* having served nothing
C15_Witness ==
    \E r \in 1..MaxReq :
       /\ req[r].pc = "done" /\ req[r].b = NoBackend /\ req[r].status = 502
       /\ \A b \in 1..Len(backends) :
             backends[b].totalRequests = 0 /\ backends[b].activeConns = 0
       /\ \E b \in 1..Len(backends) : IsBlocked(b) /\ IsHealthy(b)

\* C16: the success path of a request that selected b calls Done() once on
\* b, raises b's total_requests by one, leaves b's healthy flag and
\* total_errors as they are, and passes the upstream's status on, whatever
\* the status.
C16_SuccessPathEffect ==
    [][ \A r \in 1..MaxReq :
          (req[r].pc = "dispatched" /\ req'[r].pc = "done"
             /\ req'[r].path = "success") =>
             LET b == req[r].b
             IN  /\ b # NoBackend
                 /\ req'[r].nDone = 1 /\ req'[r].doneOn = b
                 /\ backends'[b].activeConns = backends[b].activeConns - 1
                 /\ backends'[b].totalRequests = backends[b].totalRequests + 1
                 /\ backends'[b].totalErrors = backends[b].totalErrors
                 /\ backends'[b].healthy = backends[b].healthy
                 /\ \E st \in UpstreamStatuses :
                       ModifyResponse(r, st) /\ req'[r].status = st ]_vars

\* a 503 and a 404 passed on from the same backend, which stays healthy
C16_Witness ==
    \E r1, r2 \in 1..MaxReq :
       /\ req[r1].pc = "done" /\ req[r1].path = "success" /\ req[r1].status = 503
       /\ req[r2].pc = "done" /\ req[r2].path = "success" /\ req[r2].status = 404
       /\ req[r1].b = req[r2].b
       /\ IsHealthy(req[r1].b)
       /\ backends[req[r1].b].totalRequests = 2
       /\ backends[req[r1].b].totalErrors = 0

----------------------------------------------------------------------------
(* Recovery of a demoted backend (SpecLive) *)

\* backend b, once demoted by the error handler, is unhealthy now
Demoted(b) == backends[b].totalErrors > 0 /\ ~IsHealthy(b)

\* backend b, once demoted by the error handler, is healthy again and no
\* request is in flight on it
Recovered(b) ==
    backends[b].totalErrors > 0 /\ IsHealthy(b) /\ InFlight(b) = {}

----------------------------------------------------------------------------
(* Properties of the monitor (SpecMonitor) *)

\* C19: a probe cycle starts only when none is running and then holds one
\* probe for every backend of the monitor's list as it is at that moment;
\* each probe completes against a backend the cycle still waits for, writes
\* that backend's flag only, and is not waited for again; the cycle is over
\* only when no probe is left; UpdateBackends changes the list and leaves
\* the running cycle's probes alone.
C19_CycleProbesCapturedList ==
    /\ []((mon.state = "probing") <=> (probing # {}))
    /\ [][ /\ (mon.state \in {"startup", "select"} /\ mon'.state # "exited"
                 /\ << mon.state, probing >>' # << mon.state, probing >>) =>
                 probing' = Range(monBackends)
           /\ (mon.state = "probing"
                 /\ << mon.state, probing >>' # << mon.state, probing >>) =>
                 \E b \in probing :
                    /\ probing' = probing \ {b}
                    /\ \A x \in 1..Len(backends) :
                          x # b => backends'[x] = backends[x]
                    /\ mon'.state = IF probing' = {} THEN "select" ELSE "probing"
           /\ monBackends' # monBackends => probing' = probing ]_vars

\* a second cycle running on the list a reload installed, after the first
\* one
C19_Witness ==
    /\ mon.state = "probing"
    /\ adminLog.onChange = 1
    /\ probing # {}
    /\ probing \subseteq Range(monBackends)
    /\ \E b \in 1..Len(backends) : b \notin Range(monBackends) /\ ~IsHealthy(b)

\* C20: once Stop() has returned, the goroutine, if there was one, has
\* exited and no probe is left, and from then on the monitor starts nothing
\* and writes no healthy flag; and a Stop() that waits does return, with or
\* without a Start() before it.
C20_StopTerminatesAndQuiesces ==
    /\ [](mon.stop = "returned" =>
            (mon.state \in {"new", "exited"} /\ probing = {}))
    /\ [][ mon.stop = "returned" =>
             /\ mon'.state = mon.state
             /\ probing' = probing
             /\ \A b \in 1..Len(backends) :
                   backends'[b].healthy = backends[b].healthy ]_vars
    /\ (mon.stop = "waiting") ~> (mon.stop = "returned")

\* Stop() returned after a started monitor had marked a backend unhealthy
C20_Witness ==
    /\ mon.stop = "returned"
    /\ mon.state = "exited"
    /\ mon.cancelled
    /\ \E b \in Range(monBackends) : ~IsHealthy(b)

----------------------------------------------------------------------------
(* Properties of the registry (SpecRegistry) *)

\* the picker type strategy.New builds for a strategy name
KindNamed(name) ==
    IF name \in {"round_robin", ""} THEN "rr"
    ELSE IF name = "weighted_round_robin" THEN "wrr"
    ELSE IF name = "least_connections" THEN "lc"
    ELSE "none"

\* rawURL is the RawURL of a backend of the registry's list
InList(rawURL) ==
    \E i \in 1..Len(regBackends) : backends[regBackends[i]].url = rawURL

\* C11: whenever every registry mutation made so far has returned, and no
\* two of them overlapped, the current picker's list, the monitor's list and
\* the registry's list are the same Backend objects in the same order, and
\* the picker is of the type the registry's strategy name stands for.
C11_ListsAgreeAfterMutation ==
    (pending = <<>> /\ ~adminLog.overlap) =>
       /\ pickers[gwPicker].backends = regBackends
       /\ monBackends = regBackends
       /\ pickers[gwPicker].kind = KindNamed(regStrategy)

C13_FailingCallChangesNothing ==
    [][ \A u \in URLs :
          LET failed(result) ==
                 /\ adminLog'.result = result
                 /\ adminLog'.ok = adminLog.ok
                 /\ adminLog'.onChange = adminLog.onChange
                 /\ UNCHANGED << backends, regBackends, regStrategy, pending,
                                 pickers, gwPicker, monBackends, chain >>
          IN  /\ ((\E w \in AddWeights : AddB(u, w, MaxRegMut)) /\ InList(u))
                    => failed("exists")
              /\ ((\/ RemoveB(u, MaxRegMut)
                   \/ BlockOrUnblock("block", u, MaxRegMut)
                   \/ BlockOrUnblock("unblock", u, MaxRegMut)) /\ ~InList(u))
                    => failed("notfound") ]_vars

\* a duplicate Add refused as the third call, after two mutations that took
\* effect and grew the heap to three Backend objects
C13_Witness ==
    /\ adminLog.result = "exists"
    /\ adminLog.ok = 2
    /\ nMut = 3
    /\ Len(backends) = 3

\* C14: no two backends of the registry's list have the same RawURL.
C14_UniqueRawURL ==
    \A i, j \in 1..Len(regBackends) :
       i # j => backends[regBackends[i]].url # backends[regBackends[j]].url


----------------------------------------------------------------------------
(* Cancellation of the monitor (SpecMonitor) *)

\* C21: once m.cancel() has been called no probe cycle starts (neither the
\* start-up cycle nor one for a tick), and a cycle that is running is
\* aborted: none of its outstanding probes writes a health flag.
C21_CancelStopsProbing ==
    [][ mon.cancelled =>
          /\ (mon.state # "probing" => mon'.state # "probing")
          /\ (mon.state = "probing" =>
                \A b \in probing : backends'[b].healthy = backends[b].healthy)
      ]_vars


----------------------------------------------------------------------------
(* Start-up classification (SpecStartup) *)

\* C22: once the immediate probe cycle of Start() is over and the gateway
\* is seeded, every backend the proxy selects from that is down is marked
\* unhealthy, no ticker-triggered cycle having run.
C22_ImmediateCycleClassifies ==
    (Seeded /\ mon.state = "select") =>
        \A i \in 1..Len(pickers[gwPicker].backends) :
            LET b == pickers[gwPicker].backends[i]
            IN  IsDown(b) => ~IsHealthy(b)


----------------------------------------------------------------------------
(* The smooth weighted sequence (SpecPolicy) *)

\* a weighted round robin over [A (weight 3), B (weight 1)] whose calls so
\* far all found both backends selectable
WRR31 ==
    /\ pickers[1].kind = "wrr"
    /\ Len(pickers[1].backends) = 2
    /\ backends[1].weight = 3
    /\ backends[2].weight = 1
    /\ \A i \in 1..Len(hist) : hist[i].sel = {1, 2}

\* C29: a fresh WeightedRoundRobin over [A (3), B (1)], both selectable,
\* returns A, A, B, A and is back in its initial state after every fourth
\* call, so the sequence repeats; the second call of a round raises both
\* current weights (-1 and 1) to 2 and returns A, the earlier entry.
C29_SmoothSequenceAABA ==
    WRR31 =>
      /\ \A i \in 1..Len(hist) : hist[i].b = IF i % 4 = 3 THEN 2 ELSE 1
      /\ Len(hist) % 4 = 0 => pickers[1].cw = <<0, 0>>
      /\ Len(hist) % 4 = 1 => pickers[1].cw = <<-1, 1>>

C29_Witness == WRR31 /\ Len(hist) = MaxCalls /\ hist[MaxCalls].b = 1


----------------------------------------------------------------------------
(* Weights (SpecAdmin) *)

\* C30: every backend of the registry's list, and of every picker built
\* from it, has weight >= 1, the list loaded at start-up is not empty, and
\* the total a weighted round robin computes over a non-empty healthy set
\* is >= 1.
C30_WeightsAtLeastOne ==
    /\ \A i \in 1..Len(regBackends) : backends[regBackends[i]].weight >= 1
    /\ \A k \in 1..Len(pickers) :
          /\ \A i \in 1..Len(pickers[k].backends) :
                backends[pickers[k].backends[i]].weight >= 1
          /\ (pickers[k].kind = "wrr" /\ WRRHealthy(pickers[k]) # {})
                => WRRTotal(pickers[k]) >= 1
    /\ \A c \in LoadConfigs \cup ReloadConfigs :
          Len(c.backends) = 0 => unmarshal(c).err

\* a backend posted with a weight <= 0 (HandlerWeights has no 1) is in the
\* registry's list and in the gateway's picker with weight 1
C30_Witness ==
    /\ regStrategy = "round_robin"
    /\ regBackends = <<1, 2>>
    /\ backends[2].weight = 1
    /\ adminLog.result = "ok"
    /\ pickers[gwPicker].backends = <<1, 2>>


----------------------------------------------------------------------------
(* No retry (Spec) *)

\* C26: a request in the proxy has called Next() exactly once when it is
\* dispatched and when it is answered, never before and never again; the
\* backend it was dispatched to does not change; and a failed dispatch ends
\* the request with 502 in that very step, whatever other backends there
\* are.
C26_NoRetry ==
    /\ [](\A r \in 1..MaxReq :
            /\ req[r].pc \in {"idle", "captured"} => req[r].nNext = 0
            /\ req[r].pc \in {"dispatched", "done"} => req[r].nNext = 1
            /\ req[r].path = "failure" =>
                  req[r].pc = "done" /\ req[r].status = StatusBadGateway)
    /\ [][\A r \in 1..MaxReq :
            /\ req[r].pc \in {"dispatched", "done"} =>
                  /\ req'[r].b = req[r].b
                  /\ req'[r].pc \in {"dispatched", "done"}
            /\ ErrorHandler(r) =>
                  req'[r].pc = "done" /\ req'[r].status = StatusBadGateway
       ]_vars

\* a request answered 502 after its dispatch to a backend failed, while its
\* picker's list holds another backend that is selectable
C26_Witness ==
    \E r \in 1..MaxReq :
        /\ req[r].pc = "done"
        /\ req[r].path = "failure"
        /\ req[r].b # NoBackend
        /\ req[r].status = StatusBadGateway
        /\ \E x \in Range(pickers[req[r].picker].backends) :
              x # req[r].b /\ Selectable(x)


----------------------------------------------------------------------------
(* The chain cell (SpecChain) *)

\* the request went to atomicHandler
InChain(q) == q.input # NoInput /\ muxRoute(q.input.urlPath) = "chain"

\* C23: a request loads the cell exactly once and keeps what it loaded; the
\* middlewares that see it are those of the chain it loaded, in that
\* chain's order, and they decide with that chain's configuration; a chain
\* object never changes its middlewares or its configuration; a request
\* that arrives loads the chain the cell holds then.
C23_ServedByLoadedChain ==
    /\ [](\A r \in 1..MaxReq :
            LET q == req[r]
            IN  InChain(q) =>
                  /\ q.nLoad = 1
                  /\ q.chainObj \in 1..Len(mw.objs)
                  /\ \A i \in 1..(Len(q.trace) - 1) :
                        q.trace[i + 1] = mw.objs[q.chainObj].order[i]
                  /\ q.path = "unauthorized" =>
                        ~JWTAuthPasses(mw.objs[q.chainObj].cfg, q.input)
                  /\ q.path = "limited" => mw.objs[q.chainObj].cfg.rate
                  /\ (q.pc # "chain" /\ q.path \notin {"limited", "unauthorized"}
                        /\ mw.objs[q.chainObj].cfg.auth)
                        => JWTAuthPasses(mw.objs[q.chainObj].cfg, q.input))
    /\ [][/\ \A r \in 1..MaxReq :
               /\ req[r].chainObj # 0 =>
                     /\ req'[r].chainObj = req[r].chainObj
                     /\ req'[r].nLoad = req[r].nLoad
               /\ (req[r].pc = "idle" /\ req'[r].pc = "chain") =>
                     req'[r].chainObj = mw'.cell
          /\ \A k \in 1..Len(mw.objs) :
               /\ mw'.objs[k].cfg = mw.objs[k].cfg
               /\ mw'.objs[k].order = mw.objs[k].order
       ]_vars

\* a request that loaded a chain with both middlewares has passed its rate
\* limiter and stands before its JWTAuth, while the cell already holds a
\* chain without middlewares
C23_Witness ==
    \E r \in 1..MaxReq :
        /\ req[r].pc = "chain"
        /\ req[r].chainObj = 1
        /\ req[r].trace = << "logger", "rate" >>
        /\ mw.cell = 2
        /\ mw.objs[2].order = << "proxy" >>


----------------------------------------------------------------------------
(* The order of the chain (SpecChain) *)

\* the place of a handler in the order the specification fixes
Rank(h) ==
    IF h = "logger" THEN 0 ELSE IF h = "rate" THEN 1
    ELSE IF h = "auth" THEN 2 ELSE 3

Seen(q, h) == \E i \in 1..Len(q.trace) : q.trace[i] = h

\* C24: every request of the chain is seen by Logger first and then by the
\* rate limiter, JWTAuth and the proxy in this order, none of the enabled
\* ones being skipped; a request answered 429 was seen neither by JWTAuth
\* nor by the proxy, a request answered 401 not by the proxy, and neither
\* has called Next() or has a backend; the steps of the two middlewares and
\* of Logger change no backend and no picker; Logger writes its line for a
\* request only when the request is answered.
C24_ChainOrder ==
    /\ [](\A r \in 1..MaxReq :
            LET q == req[r]
            IN  InChain(q) =>
                  /\ q.trace[1] = "logger"
                  /\ \A i, j \in 1..Len(q.trace) :
                        i < j => Rank(q.trace[i]) < Rank(q.trace[j])
                  /\ Seen(q, "proxy") =>
                        /\ mw.objs[q.chainObj].cfg.rate => Seen(q, "rate")
                        /\ mw.objs[q.chainObj].cfg.auth => Seen(q, "auth")
                  /\ q.path = "limited" =>
                        /\ q.status = StatusTooManyRequests
                        /\ ~Seen(q, "auth") /\ ~Seen(q, "proxy")
                        /\ q.nNext = 0 /\ q.b = NoBackend
                  /\ q.path = "unauthorized" =>
                        /\ q.status = StatusUnauthorized
                        /\ ~Seen(q, "proxy")
                        /\ q.nNext = 0 /\ q.b = NoBackend
                  /\ q.logged => q.pc = "done")
    /\ [][\A r \in 1..MaxReq :
            (/\ req'[r] # req[r]
             /\ \/ req[r].pc = "chain" /\ req'[r].pc \in {"chain", "done"}
                \/ req[r].path \in {"limited", "unauthorized"})
            => /\ UNCHANGED << backends, pickers >>
               /\ req'[r].nNext = 0
       ]_vars

\* a request answered 401 and a request answered 429, both logged, with the
\* backend's counters untouched
C24_Witness ==
    \E r1, r2 \in 1..MaxReq :
        /\ req[r1].path = "unauthorized" /\ req[r1].logged
        /\ req[r2].path = "limited" /\ req[r2].logged
        /\ \A b \in 1..Len(backends) :
              backends[b].totalRequests = 0 /\ backends[b].activeConns = 0


----------------------------------------------------------------------------
(* /healthz (SpecChain) *)

\* C25: a request on /healthz is answered 200 in the step in which it
\* arrives; it has loaded no chain, was seen by no middleware and is not
\* logged, has called Next() never and has no backend; its step changes no
\* token bucket, no backend and no picker.
C25_HealthzAnsweredByMux ==
    /\ [](\A r \in 1..MaxReq :
            LET q == req[r]
            IN  q.input.urlPath = "/healthz" =>
                  /\ q.pc = "done"
                  /\ q.status = StatusOK
                  /\ q.chainObj = 0 /\ q.nLoad = 0
                  /\ q.trace = << >> /\ ~q.logged
                  /\ q.nNext = 0 /\ q.b = NoBackend)
    /\ [][\A r \in 1..MaxReq :
            (req[r].pc = "idle" /\ req'[r].input.urlPath = "/healthz")
            => /\ UNCHANGED << mw, backends, pickers >>
               /\ req'[r].status = StatusOK
       ]_vars

\* /healthz answered 200 to a request without credential while the chain in
\* the cell demands a token, the address's bucket is empty and the only
\* backend is unhealthy
C25_Witness ==
    \E r \in 1..MaxReq :
        /\ req[r].input.urlPath = "/healthz"
        /\ req[r].input.cred = NoCred
        /\ req[r].status = StatusOK
        /\ mw.objs[mw.cell].cfg.auth
        /\ mw.objs[mw.cell].cfg.rate
        /\ mw.objs[mw.cell].tokens[req[r].input.remote] = 0
        /\ \A b \in Range(pickers[gwPicker].backends) : ~Selectable(b)


----------------------------------------------------------------------------
(* The rate limiter (SpecLimiter) *)

\* the requests of client address ip the rate limiter has handled, and
\* those of them it passed to the next handler
Handled(ip) ==
    { r \in 1..MaxLimReq : clientIP(req[r].input) = ip /\ Seen(req[r], "rate") }

PassedOn(ip) == { r \in Handled(ip) : req[r].path # "limited" }

\* C27: of the requests of one client address the limiter has handled it
\* has passed on as many as the burst allows and no more (the first `burst`
\* ones, all later ones being rejected), whatever the requests of the other
\* address; a rejected request is answered 429 and never stands before the
\* next handler.
C27_BurstPerClientIP ==
    /\ \A ip \in IPs :
         LET burst == mw.objs[1].cfg.burst
             h     == Cardinality(Handled(ip))
         IN  /\ Cardinality(PassedOn(ip)) = IF h < burst THEN h ELSE burst
             /\ mw.objs[1].tokens[ip] = burst - Cardinality(PassedOn(ip))
    /\ \A r \in 1..MaxLimReq :
         /\ req[r].path = "limited" =>
               /\ req[r].pc = "done"
               /\ req[r].status = StatusTooManyRequests
               /\ req[r].trace = << "logger", "rate" >>
         /\ (req[r].pc = "chain" /\ req[r].pos = 2) => Seen(req[r], "rate")

\* burst 2: two requests of ip1 passed on, a third rejected, and a request
\* of ip2 passed on from a bucket that is still half full
C27_Witness ==
    /\ mw.objs[1].cfg.burst = 2
    /\ Cardinality(PassedOn("ip1")) = 2
    /\ Cardinality(Handled("ip1")) = 3
    /\ Cardinality(PassedOn("ip2")) = 1
    /\ mw.objs[1].tokens["ip2"] = 1


----------------------------------------------------------------------------
(* JWTAuth (SpecAuth) *)

\* the credential is `Authorization: Bearer <token>` with a well-formed
\* token signed with HMAC-SHA-256 under the secret
HS256Under(cred, secret) ==
    /\ cred.header /\ cred.bearer
    /\ cred.token.parses
    /\ cred.token.alg = "HS256"
    /\ cred.token.key = secret

\* C28: a request JWTAuth has handled on a path outside the exclude list
\* stands before the next handler only if it carries a Bearer token signed
\* with HS256 under the configured secret, and is otherwise answered 401;
\* one on an excluded path stands before the next handler whatever it
\* carries.
C28_OnlyHS256Passes ==
    \A r \in 1..MaxReq :
        LET q  == req[r]
            cc == mw.objs[1].cfg
        IN  Seen(q, "auth") =>
              IF q.input.urlPath \in cc.exclude
              THEN q.pc = "chain" /\ q.pos = 2
              ELSE IF HS256Under(q.input.cred, cc.secret)
                   THEN q.path # "unauthorized" => (q.pc = "chain" /\ q.pos = 2)
                   ELSE /\ q.pc = "done"
                        /\ q.path = "unauthorized"
                        /\ q.status = StatusUnauthorized

----------------------------------------------------------------------------
(* LeastConnections.Next called alone (SpecPolicy) *)

\* the step is one call of Next() on a LeastConnections picker
LCCall ==
    /\ pickers[1].kind = "lc"
    /\ Len(hist') = Len(hist) + 1

\* i holds the fewest active connections of the set S before the call, and
\* is the first of the list among those that do
FirstMinOf(i, S) ==
    /\ i \in S
    /\ \A j \in S :
          \/ ActiveConns(i) < ActiveConns(j)
          \/ /\ ActiveConns(i) = ActiveConns(j)
             /\ i <= j

\* C32: a call of LeastConnections.Next() that runs alone returns the
\* selectable backend with the fewest active connections, the first of the
\* declared order among those, and has incremented its active_conns by one
C32_ReturnsLeastLoadedSelectable ==
    [][ (LCCall /\ hist'[Len(hist')].sel # {}) =>
            LET last == hist'[Len(hist')]
            IN  /\ FirstMinOf(last.b, last.sel)
                /\ backends' = IncConns(backends, last.b) ]_vars

----------------------------------------------------------------------------
(* What one probe writes (Spec) *)

\* what m.client.Get can deliver to probe: 0 for a transport error or a
\* timeout, otherwise the status code of the response
ProbeStatuses == {0, 100, 199, 200, 204, 301, 399, 400, 404, 500, 503}

\* C33: a probe of a backend sets its healthy flag to true exactly when the
\* response status is in 200..399 and to false on every other status and on
\* a transport error or timeout; it changes neither the blocked flag nor
\* the counters of that backend, and nothing of any other backend.
C33_ProbeWritesOnlyHealthy ==
    /\ [](\A b \in 1..Len(backends), o \in ProbeStatuses :
            probe(backends, b, o) =
               [backends EXCEPT ![b].healthy = (o >= 200 /\ o < 400)])
    /\ [][ \A b \in 1..Len(backends), o \in ProbeOutcomes :
            Probe(b, o) =>
               backends' = [backends EXCEPT
                              ![b].healthy = (o >= 200 /\ o < 400)] ]_vars

\* a probe has demoted a blocked backend that the error handler never
\* touched, next to a backend that has served a request
C33_Witness ==
    \E b, c \in 1..Len(backends) :
       /\ b # c
       /\ IsBlocked(b) /\ ~IsHealthy(b)
       /\ backends[b].totalErrors = 0
       /\ b \notin probing
       /\ nCycles = 1
       /\ IsHealthy(c) /\ backends[c].totalRequests = 1

----------------------------------------------------------------------------
(* The picker factory (SpecRegistry) *)

\* strategy names handed to New: the three of the switch, the empty name,
\* and names the switch does not know
StrategyNames == ValidStrategies \cup {"", "magic_balancer", "Round_Robin"}

\* the picker type each accepted name stands for
KindOf(st) ==
    IF st = "weighted_round_robin" THEN "wrr"
    ELSE IF st = "least_connections" THEN "lc"
    ELSE "rr"

\* the lists handed to New in this state: the registry's list, the
\* snapshots of the callbacks on their way, and the empty list
FactoryLists ==
    {<<>>, regBackends} \cup { pending[i].snapshot : i \in 1..Len(pending) }

\* C34: New(strategy, backends) returns an error and no policy when the list
\* is empty or the name is none of round_robin, weighted_round_robin,
\* least_connections and ""; for every other input it returns, without
\* error, a policy of the named type ("" yields RoundRobin) over exactly
\* the given list.
C34_FactoryAcceptsOrRejects ==
    \A st \in StrategyNames, bs \in FactoryLists :
        LET n == New(st, bs)
        IN  IF Len(bs) = 0 \/ st \notin ValidStrategies \cup {""}
            THEN n.err /\ n.picker = NoPicker
            ELSE /\ ~n.err
                 /\ n.picker.kind = KindOf(st)
                 /\ n.picker.backends = bs

\* the callback of an add has installed a picker over two backends, and the
\* callback of a later reload naming an unknown strategy has installed none
C34_Witness ==
    /\ regStrategy = "magic_balancer"
    /\ pending = <<>>
    /\ gwPicker > 1
    /\ Len(pickers[gwPicker].backends) = 2
    /\ Len(regBackends) = 1

----------------------------------------------------------------------------
(* The current weights of WeightedRoundRobin (SpecPolicyHealth) *)

\* C38: between calls of Next(), whatever calls and health changes came
\* before, the current_weight values of a WeightedRoundRobin sum to 0, and a
\* call of Next() that fails changes no current_weight.  (Next() holds the
\* picker's mutex from entry to return, so calls act one after another.)
C38_CurrentWeightsSumToZero ==
    /\ [](pickers[1].kind = "wrr" => SeqSum(pickers[1].cw) = 0)
    /\ [][ (/\ pickers[1].kind = "wrr"
            /\ Len(hist') = Len(hist) + 1
            /\ hist'[Len(hist')].b = NoBackend) => pickers' = pickers ]_vars

\* calls have moved the current weights away from zero, both backends then
\* went unhealthy, and the last call failed
C38_Witness ==
    /\ pickers[1].kind = "wrr"
    /\ Len(hist) >= 2
    /\ hist[Len(hist)].b = NoBackend
    /\ hist[1].b # NoBackend
    /\ \E i \in 1..Len(pickers[1].cw) : pickers[1].cw[i] # 0

----------------------------------------------------------------------------
(* LeastConnections spreads evenly (SpecPolicy) *)

\* every call so far saw the selectable set and the healthy set that hold
\* now: the flags were stable from the first call on
StableSince ==
    \A k \in 1..Len(hist) :
       /\ hist[k].sel = { x \in Range(pickers[1].backends) : Selectable(x) }
       /\ hist[k].healthy = { x \in Range(pickers[1].backends) : IsHealthy(x) }

\* C40: LeastConnections called without concurrency, all active_conns 0 at
\* the start, the selectable set stable from the first call on and no
\* done() called: after every next() the active_conns of any two selectable
\* backends differ by at most one.
C40_EvenSpread ==
    (pickers[1].kind = "lc" /\ StableSince) =>
        \A a, b \in { x \in Range(pickers[1].backends) : Selectable(x) } :
            ActiveConns(a) - ActiveConns(b) <= 1

\* six calls over three selectable backends: two connections each
C40_Witness ==
    /\ pickers[1].kind = "lc"
    /\ StableSince
    /\ Len(hist) = MaxCalls
    /\ Len(pickers[1].backends) = 3
    /\ \A x \in 1..3 : Selectable(x) /\ ActiveConns(x) = 2

----------------------------------------------------------------------------
(* The request counters under interleaved completions.  The hooks of        *)
(* concurrent requests interleave between their atomic operations:          *)
(* errorHandler is taken apart into the steps it makes on the Backend       *)
(* (Done and SetHealthy(false); the first counter; the second counter and   *)
(* the 502).  modifyResponse writes one counter only.                       *)

\* errorHandler's k-th counter write (k = 1, 2) on backend b
errorHandlerCountErrorsFirst(h, b, k) ==
    IF k = 1 THEN IncErrors(h, b) ELSE IncRequests(h, b)

errorHandlerCount(h, b, k) ==
    IF k = 1 THEN IncRequests(h, b) ELSE IncErrors(h, b)

CountersFrame ==
    UNCHANGED << pickers, gwPicker, monBackends, probing, regBackends,
                 regStrategy, pending, chain, mw, mem, removedDone, nMut, nCycles,
                 hist, nFlips, adminLog, mon >>

\* errorHandler up to b.SetHealthy(false); with no backend in the context it
\* only replies
ErrorDemote(r) ==
    /\ req[r].pc = "dispatched"
    /\ IF req[r].b = NoBackend
       THEN /\ req' = [req EXCEPT ![r].pc = "done", ![r].path = "failure",
                                  ![r].status = StatusBadGateway]
            /\ UNCHANGED backends
       ELSE LET d == CallDone([heap |-> backends, rq |-> req[r]], gwPicker, req[r].b)
            IN  /\ backends' = SetHealthy(d.heap, req[r].b, FALSE)
                /\ req' = [req EXCEPT ![r] = [d.rq EXCEPT !.pc = "demoted"]]
    /\ CountersFrame

\* errorHandler's first counter write
ErrorCount(r) ==
    /\ req[r].pc = "demoted"
    /\ backends' = errorHandlerCount(backends, req[r].b, 1)
    /\ req' = [req EXCEPT ![r].pc = "counted"]
    /\ CountersFrame

\* errorHandler's second counter write, and its reply
ErrorReply(r) ==
    /\ req[r].pc = "counted"
    /\ backends' = errorHandlerCount(backends, req[r].b, 2)
    /\ req' = [req EXCEPT ![r].pc = "done", ![r].path = "failure",
                          ![r].status = StatusBadGateway]
    /\ CountersFrame

NextCounters ==
    \/ \E r \in 1..MaxReq : Capture(r)
    \/ \E r \in 1..MaxReq : DirectorNext(r)
    \/ \E r \in 1..MaxReq, st \in UpstreamStatuses : ModifyResponse(r, st)
    \/ \E r \in 1..MaxReq : ErrorDemote(r)
    \/ \E r \in 1..MaxReq : ErrorCount(r)
    \/ \E r \in 1..MaxReq : ErrorReply(r)
    \/ ProbeAllStart
    \/ \E b \in 1..Len(backends), o \in ProbeOutcomes : Probe(b, o)

SpecCounters == Init /\ [][NextCounters]_vars

\* the requests that selected backend b and whose completion hook has
\* written total_requests
Counted(b) ==
    { r \in 1..MaxReq : req[r].b = b /\ req[r].pc \in {"counted", "done"} }

\* the requests that selected backend b and whose error hook has returned
Failed(b) ==
    { r \in 1..MaxReq : req[r].b = b /\ req[r].pc = "done"
                         /\ req[r].path = "failure" }

----------------------------------------------------------------------------
(* Overlapping registry mutations that never empty the list: add, block,    *)
(* unblock, and remove of one of several backends, each with its callback   *)
(* run after the lock is released.  No reload.                              *)

RemoveOneOfSeveral(rawURL) ==
    /\ Len(regBackends) > 1
    /\ RemoveB(rawURL, MaxRegMut)

NextOverlap ==
    \/ \E u \in URLs, w \in AddWeights : AddB(u, w, MaxRegMut)
    \/ \E u \in URLs : RemoveOneOfSeveral(u)
    \/ \E u \in URLs : BlockOrUnblock("block", u, MaxRegMut)
    \/ \E u \in URLs : BlockOrUnblock("unblock", u, MaxRegMut)
    \/ \E i \in 1..Len(pending) : OnChange(i)

SpecOverlap == Init /\ [][NextOverlap]_vars

\* C35: when mutations that keep the list non-empty overlap in time, then
\* once all of them have returned the proxy's policy list and the monitor's
\* list both equal the registry's final list.
C35_CallbacksConverge ==
    pending = <<>> =>
        /\ pickers[gwPicker].backends = regBackends
        /\ monBackends = regBackends

----------------------------------------------------------------------------
(* What a registry mutation does to the Backend objects (Spec) *)

\* a Backend as NewBackend leaves it: healthy, not blocked, counters zero
Fresh(o) ==
    /\ o.healthy /\ ~o.blocked
    /\ o.activeConns = 0 /\ o.totalRequests = 0 /\ o.totalErrors = 0

\* C37: add, remove, block and unblock carry the existing Backend objects
\* into the new list, so healthy, active_conns, total_requests and
\* total_errors of every backend that stays are unchanged, and block /
\* unblock change only the blocked flag of the named backend; replace_all
\* installs fresh Backend objects only: every listed backend is healthy, not
\* blocked and has zero counters, whatever the state of the backend that
\* had the same URL before.
C37_MutationsCarryOrRenew ==
    [][ /\ Len(pending') = Len(pending) + 1 =>
             LET cb == pending'[Len(pending')]
             IN  /\ \A b \in 1..Len(backends) : backends'[b] = backends[b]
                 /\ \A b \in (Len(backends) + 1)..Len(backends') : Fresh(backends'[b])
                 /\ cb.op = "replace" =>
                       \A i \in 1..Len(regBackends') :
                           /\ regBackends'[i] > Len(backends)
                           /\ Fresh(backends'[regBackends'[i]])
                 /\ cb.op = "add" =>
                       /\ SubSeq(regBackends', 1, Len(regBackends)) = regBackends
                       /\ regBackends'[Len(regBackends')] = Len(backends) + 1
                 /\ cb.op = "remove" =>
                       \E i \in 1..Len(regBackends) :
                           regBackends' = RemoveAt(regBackends, i)
                 /\ cb.op \in {"block", "unblock"} => regBackends' = regBackends
        /\ Len(pending') < Len(pending) =>
             \E i \in 1..Len(pending) :
                 /\ regBackends' = regBackends
                 /\ backends' = IF pending[i].op \in {"block", "unblock"}
                                THEN [backends EXCEPT ![pending[i].target].blocked =
                                                         (pending[i].op = "block")]
                                ELSE backends ]_vars

\* a reload has listed u1 again: the Backend that had the URL is unhealthy
\* with an error counted, the one the registry lists now is fresh
C37_Witness ==
    \E old, new \in 1..Len(backends) :
       /\ old \notin Range(regBackends)
       /\ new \in Range(regBackends)
       /\ backends[old].url = backends[new].url
       /\ ~backends[old].healthy /\ backends[old].totalErrors = 1
       /\ Fresh(backends[new])
       /\ pending = <<>>

----------------------------------------------------------------------------
(* Concurrent calls of LeastConnections.Next.  The picker's mutex is taken  *)
(* with RLock, which concurrent callers share, so the scan of one call and  *)
(* the IncConns of another interleave: a call is taken apart into its scan  *)
(* (lines 22-31) and its increment (line 35).  A call that runs alone is    *)
(* the single step PNext.                                                   *)

InitLeastConn ==
    /\ InitPolicy
    /\ regStrategy = "least_connections"

LeastConnFrame ==
    UNCHANGED << pickers, gwPicker, monBackends, probing, regBackends,
                 regStrategy, pending, chain, mw, mem, removedDone, nMut, nCycles,
                 hist, nFlips, adminLog, mon >>

\* the scan of request r's call: best is chosen, nothing is written yet
LCScan(r) ==
    /\ req[r].pc = "captured"
    /\ req' = [req EXCEPT ![r].pc = "scanned",
                          ![r].b = LCNext(pickers[req[r].picker]).b]
    /\ UNCHANGED backends
    /\ LeastConnFrame

\* the end of request r's call: best.IncConns() and the return (or the
\* error, when the scan found no backend)
LCIncrement(r) ==
    /\ req[r].pc = "scanned"
    /\ backends' = IF req[r].b # NoBackend THEN IncConns(backends, req[r].b)
                   ELSE backends
    /\ req' = [req EXCEPT ![r].pc = "dispatched", ![r].nNext = @ + 1]
    /\ LeastConnFrame

\* a call of Next() while no other call stands between its scan and its
\* increment
LCAlone ==
    /\ \A r \in 1..MaxReq : req[r].pc # "scanned"
    /\ PNext

NextLeastConn ==
    \/ \E r \in 1..MaxReq : Capture(r)
    \/ \E r \in 1..MaxReq : LCScan(r)
    \/ \E r \in 1..MaxReq : LCIncrement(r)
    \/ LCAlone

SpecLeastConn == InitLeastConn /\ [][NextLeastConn]_vars

\* C36: selection is not atomic with the increment.  A scan over two
\* healthy backends with equal active_conns takes the first one whether or
\* not another call has scanned and not yet incremented, so two concurrent
\* calls can both return the first backend and leave the counts 2 and 0; a
\* later next() that runs alone on counts 2 and 0 returns the other
\* backend.  (That the interleaving exists is the reachability of
\* C36_Witness.)
C36_BothCallsTakeFirst ==
    [][ /\ \A r \in 1..MaxReq :
             (/\ Len(backends) = 2
              /\ IsHealthy(1) /\ IsHealthy(2)
              /\ ActiveConns(1) = ActiveConns(2)
              /\ req[r].pc = "captured" /\ req'[r].pc = "scanned")
             => (req'[r].b = 1 /\ backends' = backends)
        /\ (/\ Len(backends) = 2
            /\ ActiveConns(1) = 2 /\ ActiveConns(2) = 0
            /\ Len(hist') = Len(hist) + 1)
           => (/\ hist'[Len(hist')].b = 2
               /\ backends' = IncConns(backends, 2)) ]_vars

\* both concurrent calls returned the first backend, the counts were 2 and
\* 0, and the call that then ran alone returned the second backend
C36_Witness ==
    /\ Len(backends) = 2
    /\ req[1].pc = "dispatched" /\ req[1].b = 1
    /\ req[2].pc = "dispatched" /\ req[2].b = 1
    /\ hist = << [b |-> 2, sel |-> {1, 2}, healthy |-> {1, 2}, n |-> 0] >>
    /\ ActiveConns(1) = 2 /\ ActiveConns(2) = 1

----------------------------------------------------------------------------
(* The registry on slices: every mutation with the array operations it      *)
(* makes and the list it hands to onChange.  What the callback does with    *)
(* the list is not part of this specification: no receiver writes into it.  *)

MaxOut == 4

\* the capacities the runtime may give the array of a slice grown from
\* length n
GrowCaps(n) == {n + 1, 2 * n} \ {0}

\* main: strategy.NewBackends (make([]*Backend, 0, len(cfgs)) and one append
\* per entry), then admin.NewRegistry, which stores that slice
InitSlices ==
    \E c \in InitConfigs :
        LET objs == NewBackends(unmarshal(c).cfg.backends).objs
            ids  == [i \in 1..Len(objs) |-> i]
        IN  /\ backends = objs
            /\ regBackends = ids
            /\ regStrategy = c.strategy
            /\ mem = [NoMem EXCEPT !.arrays = << ids >>,
                                   !.reg = [arr |-> 1, len |-> Len(ids)]]
            /\ pickers = << New(c.strategy, ids).picker >>
            /\ gwPicker = 1
            /\ monBackends = ids
            /\ probing = {}
            /\ pending = <<>>
            /\ chain = buildChain(c)
            /\ mw = NewMiddleware(buildChain(c))
            /\ req = [r \in 1..MaxReq |-> IdleReq]
            /\ removedDone = {}
            /\ nMut = 0
            /\ nCycles = 0
            /\ hist = <<>>
            /\ nFlips = 0
            /\ adminLog = NewAdminLog
            /\ mon = StartedMonitor

SlicesFrame ==
    UNCHANGED << pickers, gwPicker, monBackends, probing, pending, chain, mw,
                 req, removedDone, nCycles, hist, nFlips, adminLog, mon >>

\* the end of every mutation: r.snapshot() on memory m, the registry's list
\* as the other actions see it, and the snapshot passed to r.onChange
SnapshotAndNotify(m) ==
    LET sn == snapshotCopy(m)
    IN  /\ mem' = HandOut(sn.mem, sn.slice)
        /\ regBackends' = Elems(m, m.reg)

\* Registry.Add, where the call returns nil
SliceAdd(rawURL, weight, c) ==
    /\ nMut < MaxRegMut
    /\ UrlParses(rawURL)
    /\ ~addFindsDuplicate(rawURL)
    /\ Len(backends) < MaxBackendObjs
    /\ c \in GrowCaps(mem.reg.len)
    /\ nMut' = nMut + 1
    /\ backends' = Append(backends, NewBackend(rawURL, weight))
    /\ LET ap == sliceAppend(mem, mem.reg, Len(backends) + 1, c)
       IN  SnapshotAndNotify([ap.mem EXCEPT !.reg = ap.slice])
    /\ UNCHANGED regStrategy
    /\ SlicesFrame

\* Registry.Remove, where the call returns nil
SliceRemove(rawURL) ==
    /\ nMut < MaxRegMut
    /\ find(rawURL) # 0
    /\ nMut' = nMut + 1
    /\ LET rm == removeShift(mem, mem.reg, find(rawURL))
       IN  SnapshotAndNotify([rm.mem EXCEPT !.reg = rm.slice])
    /\ UNCHANGED << backends, regStrategy >>
    /\ SlicesFrame

\* Registry.Block / Registry.Unblock, where the call returns nil
SliceBlock(rawURL, v) ==
    /\ nMut < MaxRegMut
    /\ find(rawURL) # 0
    /\ nMut' = nMut + 1
    /\ backends' = SetBlocked(backends, regBackends[find(rawURL)], v)
    /\ SnapshotAndNotify(mem)
    /\ UNCHANGED regStrategy
    /\ SlicesFrame

\* the hot reload: strategy.NewBackends builds a new slice, ReplaceAll
\* stores it
SliceReplaceAll(c) ==
    /\ nMut < MaxRegMut
    /\ ~unmarshal(c).err
    /\ LET u  == unmarshal(c)
           nb == NewBackends(u.cfg.backends)
           mk == sliceMake(mem, [i \in 1..Len(nb.objs) |-> Len(backends) + i],
                           Len(nb.objs))
       IN  /\ ~nb.err
           /\ Len(backends) + Len(nb.objs) <= MaxBackendObjs
           /\ backends' = backends \o nb.objs
           /\ regStrategy' = u.cfg.strategy
           /\ SnapshotAndNotify([mk.mem EXCEPT !.reg = mk.slice])
    /\ nMut' = nMut + 1
    /\ SlicesFrame

\* Registry.Backends(), as main calls it to seed the proxy and the monitor
SliceBackends ==
    /\ Len(mem.out) < MaxOut
    /\ SnapshotAndNotify(mem)
    /\ UNCHANGED << backends, regStrategy, nMut >>
    /\ SlicesFrame

NextSlices ==
    \/ \E u \in URLs, w \in AddWeights, c \in 1..(2 * MaxBackendObjs) :
          SliceAdd(u, w, c)
    \/ \E u \in URLs : SliceRemove(u)
    \/ \E u \in URLs, v \in BOOLEAN : SliceBlock(u, v)
    \/ \E c \in ReloadConfigs : SliceReplaceAll(c)
    \/ SliceBackends

SpecSlices == InitSlices /\ [][NextSlices]_vars

\* C31: a list the registry passed to on_change or returned from Backends()
\* is never changed in length, order or membership by any later registry
\* mutation; this holds for remove too, which moves elements of the
\* registry's own array in place.
C31_SnapshotsImmutable ==
    \A k \in 1..Len(mem.out) :
        Elems(mem, mem.out[k].slice) = mem.out[k].seen

\* a list of two backends was handed out, and a remove has since moved the
\* second backend down inside the registry's own array
C31_Witness ==
    \E k \in 1..Len(mem.out) :
       /\ mem.out[k].seen = <<1, 2>>
       /\ Elems(mem, mem.out[k].slice) = <<1, 2>>
       /\ mem.reg = [arr |-> 1, len |-> 1]
       /\ mem.arrays[1] = <<2, 2>>

====
